---- MODULE Spec2Model ----
(***************************************************************************)
(* Upstream synchronizer of wpt-sync (sync/upstream.py): gecko commits     *)
(* touching the wpt subtree are grouped by bug into UpstreamSyncs,         *)
(* replayed onto a side branch, pushed as a PR and landed.                 *)
(***************************************************************************)
EXTENDS Integers, Sequences, FiniteSets, TLC

\* ------------------------------------------------------------------ bounds
MaxLen == 3        \* longest commit list given to remove_complete_backouts
NumHashes == 4     \* commit hashes the lists of the cancellation check draw on

None == 0          \* Python's None for bug ids, PR ids and merge shas

MaxCommits == 2     \* commits landing on the integration branch in Spec
MaxPushCommits == 3 \* commits landing on the integration branch in PushSpec
NumBugs == 1        \* bug numbers the commits of the integration branch name
MaxFaults == 1      \* pushes and branch deletions that fail in a run
MaxChecks == 1      \* check notifications that change a sync in a run
MaxTryPushes == 2   \* try pushes a sync has at one time
MaxPending == 2     \* gecko_push calls waiting for the lock at one time
MaxFromPr == 1      \* syncs made from a pull request in a run

VARIABLES
    history,   \* the integration branch: commits, parent first; sha = position
    central,   \* the commits 1..central of history have reached central
    syncPoint, \* the stored upstream sync point (a position of history)
    syncs,     \* the sync store: every UpstreamSync ever created, in creation order
    prs,       \* the PR host: the pull requests, pr id = position
    refs,      \* refs under refs/remotes/origin of the wpt repository
    notes,     \* notes[sha]: the sync set_upstream_sync recorded on the commit
    nextBug,   \* the id the bug tracker gives to the next filed bug
    pc,        \* position of the running gecko_push: "idle", "update", "land"
    queue,     \* syncs the running gecko_push has still to update or to try to land
    pushRev,   \* rev of the running gecko_push
    tried,     \* every status change <<from, to>> the status setter was asked for
    faults,    \* failed pushes and failed branch deletions so far
    checks,    \* check notifications that changed a sync so far
    sets,      \* pushed_syncs, failed_syncs and landed_syncs of the running gecko_push
    lock,      \* the command that holds the process lock, "" when the lock is free
    unguarded, \* the fields a command tried to write without the sync's capability
    try_pushes, \* the try pushes, each <<sync, n>>: the n-th try push of the sync
    pending,   \* gecko_push calls that have read the sync point and wait for the lock
    cl,        \* cancellation check: the list given to remove_complete_backouts
    cout,      \* its result
    cout2,     \* the result of applying remove_complete_backouts to cout
    cstage     \* 0: nothing applied, 1: applied once, 2: applied twice

cvars == <<cl, cout, cout2, cstage>>
kvars == <<unguarded, try_pushes, pending>>
mvars == <<history, central, syncPoint, syncs, prs, refs, notes, nextBug, pc, queue,
           pushRev, tried, faults, checks, sets, lock, kvars>>
vars == <<mvars, cvars>>

\* -------------------------------------------------- backout cancellation
\* A loop body that adds the hash of a backout it has cancelled.
remaining_step_no_continue(S, c) ==
    IF c.is_backout /\ c.backs \subseteq S
    THEN (S \ c.backs) \cup {c.sha}
    ELSE S \cup {c.sha}

\* A loop body whose subset test is negated.
remaining_step_negated(S, c) ==
    IF c.is_backout /\ ~(c.backs \subseteq S)
    THEN S \ c.backs
    ELSE S \cup {c.sha}

\* One iteration of the loop of remove_complete_backouts over commits_remaining.
remaining_step(S, c) ==
    IF c.is_backout /\ c.backs \subseteq S
    THEN S \ c.backs
    ELSE S \cup {c.sha}

RECURSIVE commits_remaining(_, _)
commits_remaining(commits, S) ==
    IF commits = <<>> THEN S
    ELSE commits_remaining(Tail(commits), remaining_step(S, Head(commits)))

remove_complete_backouts(commits) ==
    LET remaining == commits_remaining(commits, {})
    IN  SelectSeq(commits, LAMBDA c : c.sha \in remaining)

\* ------------------------------------------------------- commit filters
\* filter_commits: a backout that backs out no wpt commit is skipped.
filter_commits(commits) ==
    SelectSeq(commits, LAMBDA c : ~(c.is_backout /\ c.backs = {}))

\* BackoutCommitFilter._filter_commit with self.seen = seen: <<admitted, seen'>>.
\* Every commit of the model has a non-empty diff under the wpt path.
filter_commit(bug, seen, c) ==
    IF c.is_backout /\ (c.backs \cap seen) # {} THEN <<TRUE, seen>>
    ELSE IF c.bug = bug THEN <<TRUE, seen \cup {c.sha}>>
    ELSE <<FALSE, seen>>

RECURSIVE admitted_commits(_, _, _)
admitted_commits(bug, seen, commits) ==
    IF commits = <<>> THEN <<>>
    ELSE LET r == filter_commit(bug, seen, Head(commits))
             rest == admitted_commits(bug, r[2], Tail(commits))
         IN  IF r[1] THEN <<Head(commits)>> \o rest ELSE rest

\* CommitRange over the gecko repository with a BackoutCommitFilter(bug): the
\* commits of base..head the filter admits, then BackoutCommitFilter.filter_commits.
commit_range(h, bug, base, head) ==
    remove_complete_backouts(admitted_commits(bug, {}, SubSeq(h, base + 1, head)))

gecko_commits(sy) == commit_range(history, sy.bug, sy.gbase, sy.ghead)

Shas(commits) == {commits[i].sha : i \in DOMAIN commits}

\* upstreamed_gecko_commits: the gecko-commit links of the wpt commits, parent
\* first.  A wpt commit of the model is the sha of the gecko commit it replays.
upstreamed_gecko_commits(sy) == sy.wpt

Range(f) == {f[i] : i \in DOMAIN f}

\* A loop that stops at the first gecko commit that is not upstreamed.
RECURSIVE matching_commits_from_start(_, _)
matching_commits_from_start(gecko, upstreamed) ==
    IF gecko = <<>> THEN 0
    ELSE IF gecko[1].sha \notin upstreamed THEN 0
    ELSE 1 + matching_commits_from_start(Tail(gecko), upstreamed)

\* ---------------------------------------------------------- replay engine
\* The loop of update_wpt_commits that pops the gecko commits from the end
\* until one is upstreamed: the length of matching_commits.
RECURSIVE matching_commits(_, _)
matching_commits(gecko, upstreamed) ==
    IF gecko = <<>> THEN 0
    ELSE IF gecko[Len(gecko)].sha \in upstreamed THEN Len(gecko)
    ELSE matching_commits(SubSeq(gecko, 1, Len(gecko) - 1), upstreamed)

\* A replay that makes a wpt commit of a patch without net effect too.
RECURSIVE add_commits_always(_, _)
add_commits_always(wpt, commits) ==
    IF commits = <<>> THEN wpt
    ELSE add_commits_always(Append(wpt, Head(commits).sha), Tail(commits))

\* add_commit over a list of gecko commits: gecko_commit.move gives no commit
\* when the patch has no net effect, and the head then stays.
RECURSIVE add_commits(_, _)
add_commits(wpt, commits) ==
    IF commits = <<>> THEN wpt
    ELSE add_commits(IF Head(commits).effect THEN Append(wpt, Head(commits).sha) ELSE wpt,
                     Tail(commits))

\* update_wpt_commits on the gecko commits and the side branch: the return
\* value and the new side branch.
update_wpt_commits(gecko, wpt) ==
    LET m == matching_commits(gecko, Range(wpt))
        truncated == IF m = 0 THEN <<>>
                     ELSE IF m < Len(wpt) THEN SubSeq(wpt, 1, m)
                     ELSE wpt
    IN  IF Len(gecko) = 0 THEN [rv |-> FALSE, wpt |-> wpt]
        ELSE IF m = Len(gecko) /\ Len(gecko) = Len(wpt) THEN [rv |-> FALSE, wpt |-> wpt]
        ELSE [rv |-> TRUE,
              wpt |-> add_commits(truncated, SubSeq(gecko, m + 1, Len(gecko)))]

\* The side branch after update_wpt_commits has reset its head and before it
\* replays a commit.
reset_head(gecko, wpt) ==
    LET m == matching_commits(gecko, Range(wpt))
    IN  IF m = 0 THEN <<>>
        ELSE IF m < Len(wpt) THEN SubSeq(wpt, 1, m)
        ELSE wpt

\* gecko_landed: all gecko commits are ancestors of central.
gecko_landed(sy) ==
    LET all_landed(g) ==
            LET landed == [i \in DOMAIN g |-> g[i].sha <= central]
            IN  IF Len(g) = 0 THEN FALSE
                ELSE IF \E i \in DOMAIN g : landed[i] # landed[1] THEN FALSE
                ELSE landed[1]
    IN  all_landed(gecko_commits(sy))

\* ------------------------------------------------------- the UpstreamSync
statuses == {"open", "wpt-merged", "complete", "incomplete"}
status_transitions == {<<"open", "wpt-merged">>, <<"open", "complete">>,
                       <<"open", "incomplete">>, <<"incomplete", "open">>,
                       <<"wpt-merged", "complete">>}

NoBranch == <<>>   \* remote_branch not assigned
NoError == ""      \* sync.error is None

\* The operations below work on a world w = [syncs, prs, refs, tried] and give
\* a result [w, exc]: the world they leave and the exception they raise ("" if
\* they return normally).
Ok(w) == [w |-> w, exc |-> ""]
Raise(w, e) == [w |-> w, exc |-> e]

\* The status setter of SyncProcess: a change outside status_transitions is
\* refused with a ValueError.
set_status(w, s, value) ==
    LET current == w.syncs[s].status
        asked == [w EXCEPT !.tried = @ \cup {<<current, value>>}]
    IN  IF current = value THEN Ok(w)
        ELSE IF <<current, value>> \in status_transitions
        THEN Ok([asked EXCEPT !.syncs[s].status = value])
        ELSE Raise(asked, "ValueError")

\* A finish that forgets the remote branch even when its deletion failed.
finish_always_clears(w, s, status, delete_ok) ==
    LET deleted(r) ==
            IF r.exc # "" THEN r
            ELSE IF /\ status \in {"wpt-merged", "complete"}
                    /\ r.w.syncs[s].remote_branch # NoBranch
            THEN Ok([r.w EXCEPT !.refs = IF delete_ok
                                         THEN {x \in @ : x.name # r.w.syncs[s].remote_branch}
                                         ELSE @,
                                !.syncs[s].remote_branch = NoBranch])
            ELSE r
    IN  deleted(set_status(w, s, status))

\* UpstreamSync.finish: SyncProcess.finish sets the status, then the remote
\* branch is deleted; delete_ok is whether the push that deletes it succeeds.
finish(w, s, status, delete_ok) ==
    LET deleted(r) ==
            IF r.exc # "" THEN r
            ELSE IF /\ status \in {"wpt-merged", "complete"}
                    /\ r.w.syncs[s].remote_branch # NoBranch
                    /\ delete_ok
            THEN Ok([r.w EXCEPT !.refs = {x \in @ : x.name # r.w.syncs[s].remote_branch},
                                !.syncs[s].remote_branch = NoBranch])
            ELSE r
    IN  deleted(set_status(w, s, status))

RefNames(w) == {x.name : x \in w.refs}

\* A get_or_create_remote_branch that generates a name on every call.
get_or_create_remote_branch_anew(w, s) ==
    LET sy == w.syncs[s]
        count == CHOOSE n \in 0..Cardinality(w.refs) :
                    /\ <<sy.bug, n>> \notin RefNames(w)
                    /\ \A k \in 0..(n - 1) : <<sy.bug, k>> \in RefNames(w)
    IN  <<sy.bug, count>>

\* get_or_create_remote_branch: the stored name, else the upstream configured
\* for the side branch, else gecko/<bug> or the first gecko/<bug>-<count> that
\* is not a ref of origin.  A name <<bug, 0>> is gecko/<bug>, <<bug, n>> is
\* gecko/<bug>-<n>.
get_or_create_remote_branch(w, s) ==
    LET sy == w.syncs[s]
        count == CHOOSE n \in 0..Cardinality(w.refs) :
                    /\ <<sy.bug, n>> \notin RefNames(w)
                    /\ \A k \in 0..(n - 1) : <<sy.bug, k>> \in RefNames(w)
    IN  IF sy.remote_branch # NoBranch THEN sy.remote_branch
        ELSE IF sy.tracking # NoBranch THEN sy.tracking
        ELSE <<sy.bug, count>>

\* A push_commits that forgets the generated name when the push fails.
push_commits_unnamed(w, s, push_ok) ==
    LET pushed_to(name) ==
            IF push_ok
            THEN Ok([w EXCEPT
                        !.syncs[s].remote_branch = name,
                        !.refs = {x \in @ : x.name # name}
                                 \cup {[name |-> name, head |-> w.syncs[s].wpt]},
                        !.syncs[s].tracking = name])
            ELSE Raise(w, "AbortError")
    IN  pushed_to(get_or_create_remote_branch(w, s))

\* push_commits: a forced push of the side branch that sets its upstream.
push_commits(w, s, push_ok) ==
    LET pushed_to(name) ==
            IF push_ok
            THEN Ok([w EXCEPT
                        !.syncs[s].remote_branch = name,
                        !.refs = {x \in @ : x.name # name}
                                 \cup {[name |-> name, head |-> w.syncs[s].wpt]},
                        !.syncs[s].tracking = name])
            ELSE Raise([w EXCEPT !.syncs[s].remote_branch = name], "AbortError")
    IN  pushed_to(get_or_create_remote_branch(w, s))

push_required(w, s) ==
    LET sy == w.syncs[s]
    IN  ~(/\ sy.remote_branch # NoBranch
          /\ sy.remote_branch \in RefNames(w)
          /\ [name |-> sy.remote_branch, head |-> sy.wpt] \in w.refs)

\* A create_pr that opens a pull request whether or not the sync has one.
create_pr_again(w, s) ==
    [w EXCEPT !.prs = Append(@, [state |-> "open", merged |-> FALSE]),
              !.syncs[s].pr = Len(w.prs) + 1]

\* create_pr: the existing PR, else a new pull request of the host.
create_pr(w, s) ==
    IF w.syncs[s].pr # None THEN w
    ELSE [w EXCEPT !.prs = Append(@, [state |-> "open", merged |-> FALSE]),
                   !.syncs[s].pr = Len(w.prs) + 1]

MergedError == "Upstream PR merged, but additional commits added after merge"

\* An update_github that creates the PR without pushing the side branch.
push_and_create_pr_unpushed(w, s, env) ==
    LET sy == w.syncs[s]
    IN  IF Len(gecko_commits(sy)) = 0 THEN Ok(w)
        ELSE IF Len(upstreamed_gecko_commits(sy)) = 0 THEN Ok(w)
        ELSE Ok(create_pr(w, s))

\* update_github, after the part that handles an existing PR.
push_and_create_pr(w, s, env) ==
    LET sy == w.syncs[s]
        with_pr(pushed) == IF pushed.exc # "" THEN pushed ELSE Ok(create_pr(pushed.w, s))
    IN  IF Len(gecko_commits(sy)) = 0 THEN Ok(w)
        ELSE IF Len(upstreamed_gecko_commits(sy)) = 0 THEN Ok(w)
        ELSE with_pr(IF push_required(w, s) THEN push_commits(w, s, env.push_ok)
                     ELSE Ok(w))

\* An update_github that leaves the PR of a sync without gecko commits open.
update_github_no_close(w, s, env) ==
    LET sy == w.syncs[s]
        gecko_len == Len(gecko_commits(sy))
        merged_pr == /\ sy.pr # None
                     /\ gecko_len # 0
                     /\ w.prs[sy.pr].state = "closed"
                     /\ w.prs[sy.pr].merged
        host == IF sy.pr = None THEN w
                ELSE IF gecko_len = 0 THEN w
                ELSE IF w.prs[sy.pr].state = "closed"
                THEN [w EXCEPT !.prs[sy.pr].state = "open"]
                ELSE w
    IN  IF merged_pr
        THEN IF Len(upstreamed_gecko_commits(sy)) = gecko_len
             THEN finish(w, s, "complete", env.delete_ok)
             ELSE Ok([w EXCEPT !.syncs[s].error = MergedError])
        ELSE push_and_create_pr(host, s, env)

update_github(w, s, env) ==
    LET sy == w.syncs[s]
        gecko_len == Len(gecko_commits(sy))
        merged_pr == /\ sy.pr # None
                     /\ gecko_len # 0
                     /\ w.prs[sy.pr].state = "closed"
                     /\ w.prs[sy.pr].merged
        host == IF sy.pr = None THEN w
                ELSE IF gecko_len = 0 THEN [w EXCEPT !.prs[sy.pr].state = "closed"]
                ELSE IF w.prs[sy.pr].state = "closed"
                THEN [w EXCEPT !.prs[sy.pr].state = "open"]
                ELSE w
    IN  IF merged_pr
        THEN IF Len(upstreamed_gecko_commits(sy)) = gecko_len
             THEN finish(w, s, "complete", env.delete_ok)
             ELSE Ok([w EXCEPT !.syncs[s].error = MergedError])
        ELSE push_and_create_pr(host, s, env)

\* update_modified_sync.  env.apply tells whether the patches apply: "abort"
\* makes the first call of update_wpt_commits raise AbortError, "abort_twice"
\* the retry too.  A call aborts at the first commit add_commit applies, before
\* the head of the side branch moves; a sync with a PR is not retried and the
\* AbortError ends in the except clause.  When the worktree is not clean after
\* add_commit has applied a patch (env.clean is false) the assertion of
\* add_commit fails at the same place.
update_modified_sync(w, s, env) ==
    LET sy == w.syncs[s]
        gecko == gecko_commits(sy)
        head == reset_head(gecko, sy.wpt)
        applies(r, from) == r.rv /\ Len(r.wpt) > Len(from)
        asserted(x, r, from) ==
            IF applies(r, from) /\ ~env.clean
            THEN Raise([x EXCEPT !.syncs[s].wpt = from], "AssertionError")
            ELSE update_github([x EXCEPT !.syncs[s].wpt = r.wpt], s, env)
        retried(x, r) ==
            IF applies(r, reset_head(gecko, head)) /\ env.apply = "abort_twice"
            THEN Raise([x EXCEPT !.syncs[s].wpt = reset_head(gecko, head),
                                 !.syncs[s].wpt_base = "origin/master"],
                       "AbortError")
            ELSE asserted(x, r, reset_head(gecko, head))
        replayed(x, r) ==
            IF applies(r, head) /\ env.apply # "ok"
            THEN IF sy.pr # None
                 THEN update_github([x EXCEPT !.syncs[s].wpt = head], s, env)
                 ELSE retried([x EXCEPT !.syncs[s].wpt = head,
                                        !.syncs[s].wpt_base = "sync_point"],
                              update_wpt_commits(gecko, head))
            ELSE asserted(x, r, head)
        with_status(r) ==
            IF r.exc # "" THEN r
            ELSE IF Len(gecko) = 0
            THEN IF sy.pr = None THEN r ELSE update_github(r.w, s, env)
            ELSE replayed(r.w, update_wpt_commits(gecko, sy.wpt))
    IN  with_status(set_status(w, s, IF Len(gecko) = 0 THEN "incomplete" ELSE "open"))

\* try_land_pr: the world it leaves and whether it returns True.  The status
\* set_landed_status sets on the PR is not part of the world.
\* env.merge_ok is whether the checks, mergeability, approval and the host's
\* merge all let the PR merge.
CheckStatus == {"success", "pending", "failure"}

\* A try_land_pr that merges a PR without asking whether it is approved.
try_land_pr_unapproved(w, s, env) ==
    LET sy == w.syncs[s]
        merged == [w EXCEPT !.syncs[s].merge_sha = sy.pr]
        can_merge == /\ env.check \in {"success", "pending"}
                     /\ env.mergeable
                     /\ env.merge_ok
        host_merged == [merged EXCEPT !.prs[sy.pr].state = "closed",
                                      !.prs[sy.pr].merged = TRUE]
        landed_with(f) == [r |-> f, landed |-> f.exc = ""]
    IN  IF sy.status # "open" THEN [r |-> Ok(w), landed |-> FALSE]
        ELSE IF ~gecko_landed(sy) THEN [r |-> Ok(w), landed |-> FALSE]
        ELSE IF sy.pr = None THEN [r |-> Ok(w), landed |-> FALSE]
        ELSE IF w.prs[sy.pr].merged
        THEN [r |-> finish(merged, s, "wpt-merged", env.delete_ok), landed |-> FALSE]
        ELSE IF can_merge
        THEN landed_with(finish(host_merged, s, "wpt-merged", env.delete_ok))
        ELSE [r |-> Ok(w), landed |-> FALSE]

\* A try_land_pr that does not wait for the gecko commits to reach central.
try_land_pr_unlanded(w, s, env) ==
    LET sy == w.syncs[s]
        merged == [w EXCEPT !.syncs[s].merge_sha = sy.pr]
        can_merge == /\ env.check \in {"success", "pending"}
                     /\ env.mergeable
                     /\ env.approved
                     /\ env.merge_ok
        host_merged == [merged EXCEPT !.prs[sy.pr].state = "closed",
                                      !.prs[sy.pr].merged = TRUE]
        landed_with(f) == [r |-> f, landed |-> f.exc = ""]
    IN  IF sy.status # "open" THEN [r |-> Ok(w), landed |-> FALSE]
        ELSE IF sy.pr = None THEN [r |-> Ok(w), landed |-> FALSE]
        ELSE IF w.prs[sy.pr].merged
        THEN [r |-> finish(merged, s, "wpt-merged", env.delete_ok), landed |-> FALSE]
        ELSE IF can_merge
        THEN landed_with(finish(host_merged, s, "wpt-merged", env.delete_ok))
        ELSE [r |-> Ok(w), landed |-> FALSE]

try_land_pr(w, s, env) ==
    LET sy == w.syncs[s]
        merged == [w EXCEPT !.syncs[s].merge_sha = sy.pr]
        can_merge == /\ env.check \in {"success", "pending"}
                     /\ env.mergeable
                     /\ env.approved
                     /\ env.merge_ok
        host_merged == [merged EXCEPT !.prs[sy.pr].state = "closed",
                                      !.prs[sy.pr].merged = TRUE]
        landed_with(f) == [r |-> f, landed |-> f.exc = ""]
    IN  IF sy.status # "open" THEN [r |-> Ok(w), landed |-> FALSE]
        ELSE IF ~gecko_landed(sy) THEN [r |-> Ok(w), landed |-> FALSE]
        ELSE IF sy.pr = None THEN [r |-> Ok(w), landed |-> FALSE]
        ELSE IF w.prs[sy.pr].merged
        THEN [r |-> finish(merged, s, "wpt-merged", env.delete_ok), landed |-> FALSE]
        ELSE IF can_merge
        THEN landed_with(finish(host_merged, s, "wpt-merged", env.delete_ok))
        ELSE [r |-> Ok(w), landed |-> FALSE]

\* ------------------------------------------------------ grouping a push
\* UpstreamSync.for_bug(bug, statuses, flat=True): the syncs of the bug with
\* one of the statuses, listed in creation order.
for_bug(ss, bug, sts) ==
    SelectSeq([i \in DOMAIN ss |-> i],
              LAMBDA i : ss[i].bug = bug /\ ss[i].status \in sts)

EmptyDict == [x \in {} |-> None]

\* Endpoints(first): base is the parent of _first, head is _second when set.
Endpoints(c) == [first |-> c.sha, second |-> None]
EndpointsBase(e) == e.first - 1
EndpointsHead(e) == IF e.second # None THEN e.second ELSE e.first

\* The commits of history with the given hashes, parent first.
CommitsOf(shas) == SelectSeq(history, LAMBDA c : c.sha \in shas)

\* The loop of updates_for_backout over backed_out_commits.
RECURSIVE backed_out_loop(_, _, _, _)
backed_out_loop(ss, commit, backed, acc) ==
    IF backed = <<>> \/ acc.exc # "" \/ acc.done THEN acc
    ELSE LET b == Head(backed)
             found == for_bug(ss, b.bug, {"open", "incomplete"})
             sync == found[Len(found)]
         IN  IF Len(found) \notin {0, 1}
             THEN [acc EXCEPT !.exc = "ValueError"]
             ELSE IF Len(found) = 0
             THEN backed_out_loop(ss, commit, Tail(backed), acc)
             ELSE IF commit.sha \in Shas(gecko_commits(ss[sync]))
             THEN [acc EXCEPT !.done = TRUE]
             ELSE IF b.sha \in Range(upstreamed_gecko_commits(ss[sync]))
             THEN backed_out_loop(ss, commit, Tail(backed),
                     [acc EXCEPT !.shas = @ \ {b.sha},
                                 !.update = (ss[sync].bug :> [sync |-> sync,
                                                               commit |-> commit.sha]) @@ @])
             ELSE backed_out_loop(ss, commit, Tail(backed), acc)

\* An updates_for_backout that never looks for a free bug among the bugs of
\* the commits backed out.
updates_for_backout_anonymous(ss, commit) ==
    LET backed == CommitsOf(commit.backs)
        result(acc) ==
            IF acc.exc # ""
            THEN [has_none |-> FALSE, anon |-> <<>>, keyed |-> EmptyDict,
                  update |-> EmptyDict, exc |-> acc.exc]
            ELSE IF acc.done
            THEN [has_none |-> FALSE, anon |-> <<>>, keyed |-> EmptyDict,
                  update |-> EmptyDict, exc |-> ""]
            ELSE IF acc.shas = {}
            THEN [has_none |-> TRUE, anon |-> <<>>, keyed |-> EmptyDict,
                  update |-> acc.update, exc |-> ""]
            ELSE [has_none |-> TRUE, anon |-> <<Endpoints(commit)>>,
                  keyed |-> EmptyDict, update |-> acc.update, exc |-> ""]
    IN  result(backed_out_loop(ss, commit, backed,
                   [shas |-> Shas(backed), update |-> EmptyDict, exc |-> "",
                    done |-> FALSE]))

\* updates_for_backout: the create dict (has_none: it has the None key, anon:
\* the list under None, keyed: the other entries), the update dict, and the
\* exception raised.
updates_for_backout(ss, commit) ==
    LET backed == CommitsOf(commit.backs)
        bugs == {backed[i].bug : i \in DOMAIN backed} \ {None}
        result(acc) ==
            LET free == {b \in bugs : /\ b \notin DOMAIN acc.update
                                      /\ for_bug(ss, b, {"open", "incomplete"}) = <<>>}
                backout_bug == IF free = {} THEN None
                               ELSE CHOOSE b \in free : \A o \in free : b <= o
            IN  IF acc.exc # ""
                THEN [has_none |-> FALSE, anon |-> <<>>, keyed |-> EmptyDict,
                      update |-> EmptyDict, exc |-> acc.exc]
                ELSE IF acc.done
                THEN [has_none |-> FALSE, anon |-> <<>>, keyed |-> EmptyDict,
                      update |-> EmptyDict, exc |-> ""]
                ELSE IF acc.shas = {}
                THEN [has_none |-> TRUE, anon |-> <<>>, keyed |-> EmptyDict,
                      update |-> acc.update, exc |-> ""]
                ELSE IF backout_bug = None
                THEN [has_none |-> TRUE, anon |-> <<Endpoints(commit)>>,
                      keyed |-> EmptyDict, update |-> acc.update, exc |-> ""]
                ELSE [has_none |-> TRUE, anon |-> <<>>,
                      keyed |-> (backout_bug :> Endpoints(commit)),
                      update |-> acc.update, exc |-> ""]
    IN  result(backed_out_loop(ss, commit, backed,
                   [shas |-> Shas(backed), update |-> EmptyDict, exc |-> "",
                    done |-> FALSE]))

\* The part of the loop body of updated_syncs_for_push that looks for the
\* sync of the commit's bug and queues the commit.
queue_commit(ss, commit, acc) ==
    LET bug == commit.bug
        found == for_bug(ss, bug, {"open", "incomplete"})
        sync == IF bug \in DOMAIN acc.update THEN acc.update[bug].sync
                ELSE IF found # <<>> THEN found[1]
                ELSE None
    IN  IF sync # None
        THEN IF commit.sha \notin Shas(gecko_commits(ss[sync]))
             THEN [acc EXCEPT !.update = (bug :> [sync |-> sync, commit |-> commit.sha]) @@ @]
             ELSE IF ss[sync].pr = None
             THEN [acc EXCEPT !.update = (bug :> [sync |-> sync,
                                                  commit |-> ss[sync].ghead]) @@ @]
             ELSE acc
        ELSE IF bug = None
        THEN [acc EXCEPT !.anon = Append(@, Endpoints(commit))]
        ELSE IF bug \in DOMAIN acc.keyed
        THEN [acc EXCEPT !.keyed[bug].second = commit.sha]
        ELSE [acc EXCEPT !.keyed = (bug :> Endpoints(commit)) @@ @]

\* The loop of updated_syncs_for_push over the commits left after cancellation.
\* nts[sha] is the sync recorded on the commit by set_upstream_sync.
RECURSIVE push_loop(_, _, _, _)
push_loop(ss, nts, commits, acc) ==
    IF commits = <<>> \/ acc.exc # "" THEN acc
    ELSE LET commit == Head(commits)
             after_backout(b) ==
                 IF ~commit.is_backout THEN acc
                 ELSE [anon |-> IF b.has_none THEN b.anon ELSE acc.anon,
                       keyed |-> b.keyed @@ acc.keyed,
                       update |-> b.update @@ acc.update,
                       exc |-> b.exc]
             queued(after) ==
                 IF after.exc # "" THEN after
                 ELSE push_loop(ss, nts, Tail(commits), queue_commit(ss, commit, after))
         IN  IF nts[commit.sha] # None
             THEN push_loop(ss, nts, Tail(commits), acc)
             ELSE queued(after_backout(updates_for_backout(ss, commit)))

\* An updated_syncs_for_push that does not remove the complete backouts.
updated_syncs_for_push_uncancelled(ss, nts, first_commit, head_commit) ==
    LET commits == filter_commits(SubSeq(history, first_commit + 1, head_commit))
        result(acc) == [none |-> FALSE, anon |-> acc.anon, keyed |-> acc.keyed,
                        update |-> acc.update, exc |-> acc.exc]
    IN  IF commits = <<>>
        THEN [none |-> TRUE, anon |-> <<>>, keyed |-> EmptyDict, update |-> EmptyDict,
              exc |-> ""]
        ELSE result(push_loop(ss, nts, commits,
                              [anon |-> <<>>, keyed |-> EmptyDict, update |-> EmptyDict,
                               exc |-> ""]))

\* updated_syncs_for_push: none is the return without a value.
updated_syncs_for_push(ss, nts, first_commit, head_commit) ==
    LET commits == filter_commits(SubSeq(history, first_commit + 1, head_commit))
        remaining == remove_complete_backouts(commits)
        result(acc) == [none |-> FALSE, anon |-> acc.anon, keyed |-> acc.keyed,
                        update |-> acc.update, exc |-> acc.exc]
    IN  IF commits = <<>> \/ remaining = <<>>
        THEN [none |-> TRUE, anon |-> <<>>, keyed |-> EmptyDict, update |-> EmptyDict,
              exc |-> ""]
        ELSE result(push_loop(ss, nts, remaining,
                              [anon |-> <<>>, keyed |-> EmptyDict, update |-> EmptyDict,
                               exc |-> ""]))

\* ------------------------------------------------ creating and updating
RECURSIVE SortedSeq(_)
SortedSeq(S) ==
    IF S = {} THEN <<>>
    ELSE LET m == CHOOSE x \in S : \A y \in S : x <= y
         IN  <<m>> \o SortedSeq(S \ {m})

\* set_upstream_sync on every commit of the sync's gecko_commits.
set_upstream_sync(w, s) ==
    LET marked == Shas(gecko_commits(w.syncs[s]))
    IN  [w EXCEPT !.notes = [sha \in DOMAIN @ |-> IF sha \in marked THEN s ELSE @[sha]]]

\* UpstreamSync.new for an endpoint: multiple_syncs lets a bug have several
\* syncs, told apart by their seq id.
new(w, bug, endpoint) ==
    LET sy == [bug |-> bug,
               seq |-> Len(SelectSeq(w.syncs, LAMBDA o : o.bug = bug)),
               status |-> "open",
               pr |-> None,
               pr_status |-> "open",
               merge_sha |-> None,
               remote_branch |-> NoBranch,
               tracking |-> NoBranch,
               gbase |-> EndpointsBase(endpoint),
               ghead |-> EndpointsHead(endpoint),
               wpt_base |-> "origin/master",
               wpt |-> <<>>,
               last_pr_check |-> <<>>,
               error |-> NoError]
    IN  set_upstream_sync([w EXCEPT !.syncs = Append(@, sy)], Len(w.syncs) + 1)

\* The inner loop of create_syncs over the endpoints of one key.  bug is the
\* loop variable of the outer loop: once a bug has been filed for a None key
\* it holds the filed bug.
RECURSIVE create_endpoints(_, _, _)
create_endpoints(w, bug, endpoints) ==
    IF endpoints = <<>> THEN w
    ELSE IF bug = None
    THEN create_endpoints(new([w EXCEPT !.nextBug = @ + 1], w.nextBug, Head(endpoints)),
                          w.nextBug, Tail(endpoints))
    ELSE create_endpoints(new(w, bug, Head(endpoints)), bug, Tail(endpoints))

RECURSIVE create_keyed(_, _, _)
create_keyed(w, keyed, bugs) ==
    IF bugs = <<>> THEN w
    ELSE create_keyed(create_endpoints(w, Head(bugs), <<keyed[Head(bugs)]>>),
                      keyed, Tail(bugs))

\* create_syncs: the keys of the dict are taken in ascending order, None last.
create_syncs(w, anon, keyed) ==
    create_endpoints(create_keyed(w, keyed, SortedSeq(DOMAIN keyed)), None, anon)

\* update_sync_heads: a sync that is neither open nor incomplete is refused.
RECURSIVE update_sync_heads(_, _, _)
update_sync_heads(w, update, bugs) ==
    IF bugs = <<>> THEN Ok(w)
    ELSE LET u == update[Head(bugs)]
         IN  IF w.syncs[u.sync].status \notin {"open", "incomplete"}
             THEN Raise(w, "ValueError")
             ELSE update_sync_heads(
                      set_upstream_sync([w EXCEPT !.syncs[u.sync].ghead = u.commit], u.sync),
                      update, Tail(bugs))

\* A loop body that lets a failed assertion pass without storing it.
update_sync_pr_assertion_lost(w, s, env) ==
    LET recorded(r) ==
            IF r.exc = "AssertionError" THEN r
            ELSE IF r.exc # ""
            THEN Raise([r.w EXCEPT !.syncs[s].error = r.exc], r.exc)
            ELSE Ok([r.w EXCEPT !.syncs[s].error = NoError])
    IN  recorded(update_modified_sync(w, s, env))

\* A loop body that reports a failed sync without recording the error on it.
update_sync_pr_unrecorded(w, s, env) ==
    LET recorded(r) ==
            IF r.exc # ""
            THEN r
            ELSE Ok([r.w EXCEPT !.syncs[s].error = NoError])
    IN  recorded(update_modified_sync(w, s, env))

\* The body of the loop of update_sync_prs for one sync.
update_sync_pr(w, s, env) ==
    LET recorded(r) ==
            IF r.exc # ""
            THEN Raise([r.w EXCEPT !.syncs[s].error = r.exc], r.exc)
            ELSE Ok([r.w EXCEPT !.syncs[s].error = NoError])
    IN  recorded(update_modified_sync(w, s, env))

\* ------------------------------------------------------------- the system
World == [syncs |-> syncs, prs |-> prs, refs |-> refs, tried |-> tried,
          notes |-> notes, nextBug |-> nextBug]

SetWorld(w) ==
    /\ syncs' = w.syncs
    /\ prs' = w.prs
    /\ refs' = w.refs
    /\ tried' = w.tried
    /\ notes' = w.notes
    /\ nextBug' = w.nextBug

\* What the collaborators answer during one step: whether the push and the
\* deletion of the remote branch succeed, the status of the check runs, and
\* whether the PR is mergeable, is approved and merges.
LandAnswers ==
    {[check |-> "success", mergeable |-> TRUE, approved |-> TRUE, merge_ok |-> TRUE],
     [check |-> "pending", mergeable |-> TRUE, approved |-> TRUE, merge_ok |-> TRUE],
     [check |-> "failure", mergeable |-> TRUE, approved |-> TRUE, merge_ok |-> TRUE],
     [check |-> "success", mergeable |-> FALSE, approved |-> TRUE, merge_ok |-> TRUE],
     [check |-> "success", mergeable |-> TRUE, approved |-> FALSE, merge_ok |-> TRUE],
     [check |-> "success", mergeable |-> TRUE, approved |-> TRUE, merge_ok |-> FALSE]}

Env(push_ok, delete_ok, land) ==
    [push_ok |-> push_ok, clean |-> TRUE, apply |-> "ok", delete_ok |-> delete_ok,
     check |-> land.check, mergeable |-> land.mergeable, approved |-> land.approved,
     merge_ok |-> land.merge_ok]

\* The same answers when the worktree is left dirty by a patch.
Dirty(env, clean) == [env EXCEPT !.clean = clean]

\* The same answers when a patch does not apply.
Conflict(env, apply) == [env EXCEPT !.apply = apply]

CanMerge == CHOOSE a \in LandAnswers : a.check = "success" /\ a.mergeable /\ a.approved /\ a.merge_ok

Terminal(sy) == sy.status \in {"wpt-merged", "complete"}

\* The answers that can make a difference to a step on sync s: a push or a
\* deletion can fail while the run has failures left, the PR of a sync that is
\* not finished is asked about only once the gecko commits have landed, and the
\* check runs of an open sync at any time.
Oks == IF faults < MaxFaults THEN BOOLEAN ELSE {TRUE}
Applies == IF faults < MaxFaults THEN {"ok", "abort", "abort_twice"} ELSE {"ok"}
Answers(s) ==
    IF gecko_landed(syncs[s]) /\ ~Terminal(syncs[s]) THEN LandAnswers ELSE {CanMerge}
CheckAnswers(s) ==
    IF syncs[s].status # "open" THEN {CanMerge}
    ELSE IF gecko_landed(syncs[s]) THEN LandAnswers
    ELSE {a \in LandAnswers : a.mergeable /\ a.approved /\ a.merge_ok}

\* A step in which a push or a deletion fails: only where the failure changes
\* what the step does, and only MaxFaults times in a run.
Failures(push_ok, delete_ok) ==
    (IF push_ok THEN 0 ELSE 1) + (IF delete_ok THEN 0 ELSE 1)

Fails(push_ok, delete_ok, outcome, unfailed) ==
    /\ faults + Failures(push_ok, delete_ok) <= MaxFaults
    /\ Failures(push_ok, delete_ok) > 0 => outcome # unfailed
    /\ faults' = faults + Failures(push_ok, delete_ok)

NoSyncs == [pushed |-> {}, failed |-> {}, landed |-> {}]

\* The bugs the commits name, and the first id the bug tracker gives out.
KnownBugs == 1..NumBugs
FirstFiledBug == NumBugs + 1

MainInit ==
    /\ history = <<>>
    /\ central = 0
    /\ syncPoint = 0
    /\ syncs = <<>>
    /\ prs = <<>>
    /\ refs = {}
    /\ notes = <<>>
    /\ nextBug = FirstFiledBug
    /\ pc = "idle"
    /\ queue = <<>>
    /\ pushRev = 0
    /\ tried = {}
    /\ faults = 0
    /\ checks = 0
    /\ sets = NoSyncs
    /\ lock = ""
    /\ unguarded = {}
    /\ try_pushes = {}
    /\ pending = {}

\* The commits that can land next on the integration branch.
NextCommits ==
    LET sha == Len(history) + 1
    IN  {[sha |-> sha, bug |-> None, is_backout |-> FALSE, backs |-> {}, effect |-> TRUE]}
        \cup
        {[sha |-> sha, bug |-> b, is_backout |-> FALSE, backs |-> {}, effect |-> e] :
            b \in KnownBugs, e \in BOOLEAN}
        \cup
        {[sha |-> sha, bug |-> history[CHOOSE b \in B : \A o \in B : b <= o].bug,
          is_backout |-> TRUE, backs |-> B, effect |-> TRUE] :
            B \in (SUBSET (1..Len(history))) \ {{}}}

\* A commit lands on the integration branch.
Land(max) ==
    /\ pc = "idle"
    /\ Len(history) < max
    /\ \E c \in NextCommits :
        /\ history' = Append(history, c)
        /\ notes' = Append(notes, None)
    /\ UNCHANGED <<central, syncPoint, syncs, prs, refs, nextBug, pc, queue, pushRev,
                   tried, faults, checks, sets, cvars,
                   lock, kvars>>

\* The integration branch is merged to central.
MergeToCentral ==
    /\ pc = "idle"
    /\ central < Len(history)
    /\ central' = Len(history)
    /\ UNCHANGED <<history, syncPoint, syncs, prs, refs, notes, nextBug, pc, queue,
                   pushRev, tried, faults, checks, sets, cvars,
                   lock, kvars>>

\* The PR host merges, closes or reopens a pull request out-of-band.
HostMerge ==
    /\ pc = "idle"
    /\ \E p \in DOMAIN prs :
        /\ prs[p].state = "open"
        /\ prs' = [prs EXCEPT ![p].state = "closed", ![p].merged = TRUE]
    /\ UNCHANGED <<history, central, syncPoint, syncs, refs, notes, nextBug, pc, queue,
                   pushRev, tried, faults, checks, sets, cvars,
                   lock, kvars>>

HostClose ==
    /\ pc = "idle"
    /\ \E p \in DOMAIN prs :
        /\ prs[p].state = "open"
        /\ prs' = [prs EXCEPT ![p].state = "closed"]
    /\ UNCHANGED <<history, central, syncPoint, syncs, refs, notes, nextBug, pc, queue,
                   pushRev, tried, faults, checks, sets, cvars,
                   lock, kvars>>

HostReopen ==
    /\ pc = "idle"
    /\ \E p \in DOMAIN prs :
        /\ prs[p].state = "closed"
        /\ ~prs[p].merged
        /\ prs' = [prs EXCEPT ![p].state = "open"]
    /\ UNCHANGED <<history, central, syncPoint, syncs, refs, notes, nextBug, pc, queue,
                   pushRev, tried, faults, checks, sets, cvars,
                   lock, kvars>>

\* A gecko_push that works on the syncs without holding the lock.
GeckoPush_unlocked ==
    /\ pc = "idle"
    /\ lock = ""
    /\ \E rev \in {Len(history)} \ {0} :
        LET started(updated, created, heads) ==
                IF rev <= syncPoint \/ updated.exc # "" \/ updated.none
                THEN UNCHANGED <<syncs, prs, refs, notes, nextBug, tried, pc, queue,
                                 pushRev>>
                ELSE IF heads.exc # ""
                THEN /\ SetWorld(heads.w)
                     /\ UNCHANGED <<pc, queue, pushRev>>
                ELSE /\ SetWorld(heads.w)
                     /\ pc' = "update"
                     /\ queue' = [i \in 1..(Len(created.syncs) - Len(syncs)) |->
                                     Len(syncs) + i]
                                 \o [i \in 1..Cardinality(DOMAIN updated.update) |->
                                        updated.update[SortedSeq(DOMAIN updated.update)[i]].sync]
                     /\ pushRev' = rev
            headed(updated, created) ==
                started(updated, created,
                        update_sync_heads(created, updated.update,
                                          SortedSeq(DOMAIN updated.update)))
            grouped(updated) ==
                headed(updated, create_syncs(World, updated.anon, updated.keyed))
        IN  grouped(updated_syncs_for_push(syncs, notes, syncPoint, rev))
    /\ lock' = ""
    /\ UNCHANGED <<history, central, syncPoint, faults, checks, sets, cvars, kvars>>

\* ------------------------------------------------------------ gecko_push
\* gecko_push(rev) up to the loop of update_sync_prs: the grouping of the
\* push, create_syncs and update_sync_heads.
GeckoPush ==
    /\ pc = "idle"
    /\ lock = ""
    /\ \E rev \in {Len(history)} \ {0} :
        LET started(updated, created, heads) ==
                IF rev <= syncPoint \/ updated.exc # "" \/ updated.none
                THEN UNCHANGED <<syncs, prs, refs, notes, nextBug, tried, pc, queue,
                                 pushRev>>
                ELSE IF heads.exc # ""
                THEN /\ SetWorld(heads.w)
                     /\ UNCHANGED <<pc, queue, pushRev>>
                ELSE /\ SetWorld(heads.w)
                     /\ pc' = "update"
                     /\ queue' = [i \in 1..(Len(created.syncs) - Len(syncs)) |->
                                     Len(syncs) + i]
                                 \o [i \in 1..Cardinality(DOMAIN updated.update) |->
                                        updated.update[SortedSeq(DOMAIN updated.update)[i]].sync]
                     /\ pushRev' = rev
            headed(updated, created) ==
                started(updated, created,
                        update_sync_heads(created, updated.update,
                                          SortedSeq(DOMAIN updated.update)))
            grouped(updated) ==
                headed(updated, create_syncs(World, updated.anon, updated.keyed))
        IN  grouped(updated_syncs_for_push(syncs, notes, syncPoint, rev))
    /\ lock' = IF pc' = "idle" THEN "" ELSE "gecko_push"
    /\ UNCHANGED <<history, central, syncPoint, faults, checks, sets, cvars, kvars>>

\* The syncs gecko_push tries to land: the open syncs without an error.
landable_syncs(ss) ==
    SelectSeq([i \in DOMAIN ss |-> i],
              LAMBDA i : ss[i].status = "open" /\ ss[i].error = NoError)

\* One iteration of the loop of update_sync_prs, raise_on_error being false.
UpdateSyncPr ==
    /\ pc = "update"
    /\ queue # <<>>
    /\ \E push_ok, delete_ok, clean \in Oks, apply \in Applies :
        LET s == Head(queue)
            updated(r) ==
                /\ clean \/ (push_ok /\ delete_ok)
                /\ apply = "ok" \/ (clean /\ push_ok /\ delete_ok)
                /\ Fails(push_ok /\ clean /\ apply = "ok", delete_ok, r,
                         update_sync_pr(World, s, Env(TRUE, TRUE, CanMerge)))
                /\ SetWorld(r.w)
                /\ sets' = IF r.exc # ""
                           THEN [sets EXCEPT !.failed = @ \cup {s}]
                           ELSE [sets EXCEPT !.pushed = @ \cup {s}]
                /\ queue' = IF Tail(queue) = <<>> THEN landable_syncs(r.w.syncs)
                            ELSE Tail(queue)
                /\ pc' = IF Tail(queue) = <<>> THEN "land" ELSE "update"
        IN  updated(update_sync_pr(World, s,
                        Conflict(Dirty(Env(push_ok, delete_ok, CanMerge), clean), apply)))
    /\ lock' = IF pc' = "idle" THEN "" ELSE lock
    /\ UNCHANGED <<history, central, syncPoint, pushRev, checks, cvars, kvars>>

\* One iteration of the loop of try_land_syncs in gecko_push.
TryLandSync ==
    /\ pc = "land"
    /\ queue # <<>>
    /\ \E delete_ok \in Oks, land \in Answers(Head(queue)) :
        LET s == Head(queue)
            tried_to_land(t) ==
                /\ Fails(TRUE, delete_ok, t, try_land_pr(World, s, Env(TRUE, TRUE, land)))
                /\ SetWorld(t.r.w)
                /\ IF t.r.exc # ""
                   THEN /\ sets' = NoSyncs
                        /\ pc' = "idle"
                        /\ queue' = <<>>
                   ELSE /\ sets' = [sets EXCEPT
                                       !.landed = IF t.landed THEN @ \cup {s} ELSE @]
                        /\ pc' = "land"
                        /\ queue' = Tail(queue)
        IN  tried_to_land(try_land_pr(World, s, Env(TRUE, delete_ok, land)))
    /\ lock' = IF pc' = "idle" THEN "" ELSE lock
    /\ UNCHANGED <<history, central, syncPoint, pushRev, checks, cvars, kvars>>

\* A gecko_push whose last test uses the sync point it read before the lock.
GeckoPushEnd_stale ==
    /\ pc = "land"
    /\ queue = <<>>
    /\ lock' = ""
    /\ syncPoint' = pushRev
    /\ pc' = "idle"
    /\ sets' = NoSyncs
    /\ UNCHANGED <<history, central, syncs, prs, refs, notes, nextBug, queue, pushRev,
                   tried, faults, checks, cvars, kvars>>

\* The end of gecko_push: the sync point moves to rev and the three sets are
\* returned.
GeckoPushEnd ==
    /\ pc = "land"
    /\ queue = <<>>
    /\ lock' = ""
    /\ syncPoint' = IF pushRev <= syncPoint THEN syncPoint ELSE pushRev
    /\ pc' = "idle"
    /\ sets' = NoSyncs
    /\ UNCHANGED <<history, central, syncs, prs, refs, notes, nextBug, queue, pushRev,
                   tried, faults, checks, cvars, kvars>>

\* ----------------------------------------------------------- update_sync
\* update_sync without the early return for a finished sync.
update_sync_no_return(w, s, env) ==
    LET sy == w.syncs[s]
        result(x, pushed, landed) ==
            [w |-> x.w, pushed |-> pushed, failed |-> {}, landed |-> landed,
             exc |-> x.exc]
        tried_to_land(t) == result(t.r, {s}, IF t.landed THEN {s} ELSE {})
        updated(r) ==
            IF r.exc # "" THEN result(r, {}, {})
            ELSE tried_to_land(try_land_pr(r.w, s, env))
        headed(heads) ==
            IF heads.exc # "" THEN result(heads, {}, {})
            ELSE updated(update_sync_pr(heads.w, s, env))
    IN  headed(update_sync_heads(w, sy.bug :> [sync |-> s, commit |-> sy.ghead],
                                 <<sy.bug>>))

\* update_sync with its default raise_on_error=True: the world it leaves, the
\* three sets it returns and the exception it raises.
update_sync(w, s, env) ==
    LET sy == w.syncs[s]
        result(x, pushed, landed) ==
            [w |-> x.w, pushed |-> pushed, failed |-> {}, landed |-> landed,
             exc |-> x.exc]
        tried_to_land(t) == result(t.r, {s}, IF t.landed THEN {s} ELSE {})
        updated(r) ==
            IF r.exc # "" THEN result(r, {}, {})
            ELSE tried_to_land(try_land_pr(r.w, s, env))
        headed(heads) ==
            IF heads.exc # "" THEN result(heads, {}, {})
            ELSE updated(update_sync_pr(heads.w, s, env))
    IN  IF sy.status \in {"wpt-merged", "complete"}
        THEN result(Ok(w), {}, {})
        ELSE headed(update_sync_heads(w, sy.bug :> [sync |-> s, commit |-> sy.ghead],
                                      <<sy.bug>>))

UpdateSync ==
    /\ lock = ""
    /\ \E s \in DOMAIN syncs, push_ok, delete_ok, clean \in Oks, apply \in Applies :
      \E land \in Answers(s) :
        LET returned(r) ==
                /\ clean \/ (push_ok /\ delete_ok)
                /\ apply = "ok" \/ (clean /\ push_ok /\ delete_ok)
                /\ Fails(push_ok /\ clean /\ apply = "ok", delete_ok, r,
                         update_sync(World, s, Env(TRUE, TRUE, land)))
                /\ SetWorld(r.w)
        IN  returned(update_sync(World, s,
                         Conflict(Dirty(Env(push_ok, delete_ok, land), clean), apply)))
    /\ UNCHANGED <<history, central, syncPoint, pc, queue, pushRev, checks, sets, cvars,
                   lock, kvars>>

\* ---------------------------------------------------- commit_check_changed
ChecksFailedError == "Checks failed"

\* The head the check runs of the sync's PR are for.
pr_head(w, s) ==
    LET sy == w.syncs[s]
    IN  IF \E x \in w.refs : x.name = sy.remote_branch
        THEN (CHOOSE x \in w.refs : x.name = sy.remote_branch).head
        ELSE sy.wpt

\* A commit_check_changed that does not store the pair of failed checks.
commit_check_changed_unrecorded(w, s, env, bz_ok) ==
    LET sy == w.syncs[s]
        this_pr_check == <<env.check, pr_head(w, s)>>
        last_pr_check == sy.last_pr_check
        recorded == [w EXCEPT !.syncs[s].last_pr_check = this_pr_check]
        cleared == [recorded EXCEPT !.syncs[s].error = NoError]
        silent(t) == [r |-> t.r, landed |-> t.landed, posted |-> FALSE]
    IN  IF sy.status # "open" THEN [r |-> Ok(w), landed |-> TRUE, posted |-> FALSE]
        ELSE IF env.check = "success"
        THEN IF gecko_landed(sy) THEN silent(try_land_pr(cleared, s, env))
             ELSE [r |-> Ok(cleared), landed |-> FALSE, posted |-> FALSE]
        ELSE IF env.check = "failure" /\ last_pr_check # this_pr_check
        THEN [r |-> Ok(IF bz_ok THEN w
                       ELSE [w EXCEPT !.syncs[s].error = ChecksFailedError]),
              landed |-> FALSE, posted |-> TRUE]
        ELSE [r |-> Ok(recorded), landed |-> FALSE, posted |-> FALSE]

\* A commit_check_changed that leaves the stored error when the checks pass.
commit_check_changed_error_kept(w, s, env, bz_ok) ==
    LET sy == w.syncs[s]
        this_pr_check == <<env.check, pr_head(w, s)>>
        last_pr_check == sy.last_pr_check
        recorded == [w EXCEPT !.syncs[s].last_pr_check = this_pr_check]
        silent(t) == [r |-> t.r, landed |-> t.landed, posted |-> FALSE]
    IN  IF sy.status # "open" THEN [r |-> Ok(w), landed |-> TRUE, posted |-> FALSE]
        ELSE IF env.check = "success"
        THEN IF gecko_landed(sy) THEN silent(try_land_pr(recorded, s, env))
             ELSE [r |-> Ok(recorded), landed |-> FALSE, posted |-> FALSE]
        ELSE IF env.check = "failure" /\ last_pr_check # this_pr_check
        THEN [r |-> Ok(IF bz_ok THEN recorded
                       ELSE [recorded EXCEPT !.syncs[s].error = ChecksFailedError]),
              landed |-> FALSE, posted |-> TRUE]
        ELSE [r |-> Ok(recorded), landed |-> FALSE, posted |-> FALSE]

\* commit_check_changed for a PR with check runs; bz_ok is whether the comment
\* and the needinfo on the bug succeed, posted whether the comment on the
\* failed checks was sent to the bug.
commit_check_changed(w, s, env, bz_ok) ==
    LET sy == w.syncs[s]
        this_pr_check == <<env.check, pr_head(w, s)>>
        last_pr_check == sy.last_pr_check
        recorded == [w EXCEPT !.syncs[s].last_pr_check = this_pr_check]
        cleared == [recorded EXCEPT !.syncs[s].error = NoError]
        silent(t) == [r |-> t.r, landed |-> t.landed, posted |-> FALSE]
    IN  IF sy.status # "open" THEN [r |-> Ok(w), landed |-> TRUE, posted |-> FALSE]
        ELSE IF env.check = "success"
        THEN IF gecko_landed(sy) THEN silent(try_land_pr(cleared, s, env))
             ELSE [r |-> Ok(cleared), landed |-> FALSE, posted |-> FALSE]
        ELSE IF env.check = "failure" /\ last_pr_check # this_pr_check
        THEN [r |-> Ok(IF bz_ok THEN recorded
                       ELSE [recorded EXCEPT !.syncs[s].error = ChecksFailedError]),
              landed |-> FALSE, posted |-> TRUE]
        ELSE [r |-> Ok(recorded), landed |-> FALSE, posted |-> FALSE]

CommitCheckChanged ==
    /\ lock = ""
    /\ \E s \in DOMAIN syncs, delete_ok \in Oks, bz_ok \in BOOLEAN :
      \E land \in CheckAnswers(s) :
        LET returned(c) ==
                /\ Fails(TRUE, delete_ok, c,
                         commit_check_changed(World, s, Env(TRUE, TRUE, land), bz_ok))
                /\ checks' = IF c.r.w = World THEN checks ELSE checks + 1
                /\ checks' <= MaxChecks
                /\ SetWorld(c.r.w)
        IN  /\ syncs[s].pr # None
            /\ bz_ok \/ land.check = "failure"
            /\ returned(commit_check_changed(World, s, Env(TRUE, delete_ok, land), bz_ok))
    /\ UNCHANGED <<history, central, syncPoint, pc, queue, pushRev, sets, cvars,
                   lock, kvars>>

\* An update_pr that completes a wpt-merged sync when its PR is reported merged.
update_pr_completes(w, s, action, merge_sha, base_sha, delete_ok) ==
    LET sy == w.syncs[s]
        merged == [w EXCEPT !.syncs[s].merge_sha = merge_sha,
                            !.syncs[s].wpt_base =
                                IF sy.wpt = <<>> /\ base_sha # None THEN "base_sha" ELSE @]
    IN  IF action = "closed"
        THEN IF merge_sha = None /\ sy.pr_status # "closed"
             THEN Ok([w EXCEPT !.syncs[s].pr_status = "closed"])
             ELSE IF sy.status \notin {"complete", "wpt-merged"}
             THEN finish(merged, s, "wpt-merged", delete_ok)
             ELSE IF sy.status = "wpt-merged"
             THEN finish(merged, s, "complete", delete_ok)
             ELSE Ok(merged)
        ELSE IF action \in {"reopened", "open"}
        THEN Ok([w EXCEPT !.syncs[s].pr_status = "open"])
        ELSE Ok(w)

\* ------------------------------------------------------------- update_pr
update_pr(w, s, action, merge_sha, base_sha, delete_ok) ==
    LET sy == w.syncs[s]
        merged == [w EXCEPT !.syncs[s].merge_sha = merge_sha,
                            !.syncs[s].wpt_base =
                                IF sy.wpt = <<>> /\ base_sha # None THEN "base_sha" ELSE @]
    IN  IF action = "closed"
        THEN IF merge_sha = None /\ sy.pr_status # "closed"
             THEN Ok([w EXCEPT !.syncs[s].pr_status = "closed"])
             ELSE IF sy.status \notin {"complete", "wpt-merged"}
             THEN finish(merged, s, "wpt-merged", delete_ok)
             ELSE Ok(merged)
        ELSE IF action \in {"reopened", "open"}
        THEN Ok([w EXCEPT !.syncs[s].pr_status = "open"])
        ELSE Ok(w)

\* A PR event of the host is handled: the action and the merge sha are those
\* of the pull request on the host.
UpdatePr ==
    /\ lock = ""
    /\ \E s \in DOMAIN syncs, delete_ok \in Oks :
        LET p == syncs[s].pr
            action == IF prs[p].state = "closed" THEN "closed" ELSE "reopened"
            merge_sha == IF prs[p].merged THEN p ELSE None
            returned(r) ==
                /\ Fails(TRUE, delete_ok, r,
                         update_pr(World, s, action, merge_sha, 1, TRUE))
                /\ SetWorld(r.w)
        IN  /\ p # None
            /\ returned(update_pr(World, s, action, merge_sha, 1, delete_ok))
    /\ UNCHANGED <<history, central, syncPoint, pc, queue, pushRev, checks, sets, cvars,
                   lock, kvars>>

Next ==
    \/ Land(MaxCommits)
    \/ MergeToCentral
    \/ HostMerge
    \/ HostClose
    \/ HostReopen
    \/ GeckoPush
    \/ UpdateSyncPr
    \/ TryLandSync
    \/ GeckoPushEnd
    \/ UpdateSync
    \/ CommitCheckChanged
    \/ UpdatePr

Init ==
    /\ MainInit
    /\ cl = <<>>
    /\ cout = <<>>
    /\ cout2 = <<>>
    /\ cstage = 0

Spec == Init /\ [][Next]_vars

\* Runs of pushes alone, over longer histories: no PR event, check
\* notification or update_sync arrives and the host does nothing by itself.
PushNext ==
    \/ Land(MaxPushCommits)
    \/ MergeToCentral
    \/ GeckoPush
    \/ UpdateSyncPr
    \/ TryLandSync
    \/ GeckoPushEnd

PushSpec == Init /\ [][PushNext]_vars

\* ------------------------------------------- the cancellation check's runs
Hashes == 1..NumHashes

ListCommits ==
    {[sha |-> h, bug |-> None, is_backout |-> FALSE, backs |-> {}, effect |-> TRUE] :
        h \in Hashes}
    \cup
    {[sha |-> h, bug |-> None, is_backout |-> TRUE, backs |-> B, effect |-> TRUE] :
        h \in Hashes, B \in SUBSET Hashes}

CommitLists ==
    {l \in UNION {[1..n -> ListCommits] : n \in 0..MaxLen} :
        /\ \A i, j \in DOMAIN l : i # j => l[i].sha # l[j].sha
        /\ \A i \in DOMAIN l : l[i].sha \notin l[i].backs}

CancelInit ==
    /\ MainInit
    /\ cl \in CommitLists
    /\ cout = <<>>
    /\ cout2 = <<>>
    /\ cstage = 0

CancelOnce ==
    /\ cstage = 0
    /\ cout' = remove_complete_backouts(cl)
    /\ cstage' = 1
    /\ UNCHANGED <<cl, cout2, mvars>>

CancelTwice ==
    /\ cstage = 1
    /\ cout2' = remove_complete_backouts(cout)
    /\ cstage' = 2
    /\ UNCHANGED <<cl, cout, mvars>>

CancelNext == CancelOnce \/ CancelTwice

CancelSpec == CancelInit /\ [][CancelNext]_vars

\* ------------------------------------------------------------------ C4
\* The set S of the cancellation law after scanning L, by induction on the
\* length of L.
RECURSIVE LawS(_)
LawS(L) ==
    IF L = <<>> THEN {}
    ELSE LET S == LawS(SubSeq(L, 1, Len(L) - 1))
             c == L[Len(L)]
         IN  IF ~c.is_backout THEN S \cup {c.sha}
             ELSE IF c.backs \subseteq S THEN S \ c.backs
             ELSE S \cup {c.sha}

\* The positions of L whose hash remains in S, and the k-th of them.
LawKept(L) == {i \in 1..Len(L) : L[i].sha \in LawS(L)}
LawNth(L, k) ==
    CHOOSE i \in LawKept(L) : Cardinality({j \in LawKept(L) : j <= i}) = k

\* C4: remove_complete_backouts(L) is exactly the subsequence of L, in L's
\* order, of the commits whose hash remains in the set S of the cancellation
\* law (non-backouts added, a backout with B a subset of S removes B and is
\* dropped, any other backout is kept).
C4_CancellationLaw ==
    cstage >= 1 =>
        /\ Len(cout) = Cardinality(LawKept(cl))
        /\ \A k \in 1..Len(cout) : cout[k] = cl[LawNth(cl, k)]

\* A complete pair was cancelled while an incomplete backout was kept.
C4_Witness ==
    /\ cstage >= 1
    /\ Len(cl) = 3
    /\ Len(cout) = 1
    /\ cout[1].is_backout
    /\ \E i \in 1..3 : cl[i].is_backout /\ cl[i].backs # {} /\ cl[i].backs \subseteq {c.sha : c \in {cl[j] : j \in 1..3}}

\* ------------------------------------------------------------------ C5
\* C5: cancellation is idempotent, remove_complete_backouts applied to its own
\* result returns that result.
C5_CancelIdempotent ==
    cstage = 2 => cout2 = cout

\* The second application ran on a list from which the first one had removed
\* a pair and in which it had kept a backout.
C5_Witness ==
    /\ cstage = 2
    /\ Len(cout) < Len(cl)
    /\ \E k \in 1..Len(cout) : cout[k].is_backout

\* ------------------------------------------------------------------ C1
\* C1: every change of a sync's status that a command performs or attempts is
\* one of open->wpt-merged, open->complete, open->incomplete, incomplete->open,
\* wpt-merged->complete.
C1_StateMachineClosure == tried \subseteq status_transitions

\* ------------------------------------------------------------------ C2
\* C2: no two syncs with status open have the same bug.
C2_OpenSyncsHaveDistinctBugs ==
    \A i, j \in DOMAIN syncs :
        (i # j /\ syncs[i].status = "open" /\ syncs[j].status = "open")
            => syncs[i].bug # syncs[j].bug

\* ------------------------------------------------------------------ C3
\* update_sync_heads refuses the sync whatever commit it is given, and
\* update_sync returns three empty sets and changes nothing, whatever the
\* collaborators would answer.
TerminalRefused(s) ==
    /\ \A c \in 1..Len(history) :
          update_sync_heads(World, syncs[s].bug :> [sync |-> s, commit |-> c],
                            <<syncs[s].bug>>) = Raise(World, "ValueError")
    /\ \A push_ok, delete_ok \in BOOLEAN, land \in LandAnswers :
          update_sync(World, s, Env(push_ok, delete_ok, land))
              = [w |-> World, pushed |-> {}, failed |-> {}, landed |-> {}, exc |-> ""]

\* C3: a sync whose status is wpt-merged or complete is never mutated on the
\* gecko side: no step changes the base or the head of its gecko range or its
\* gecko_commits, update_sync_heads refuses it and update_sync is a no-op that
\* returns three empty sets.
C3_TerminalGeckoSideFrozen ==
    /\ [](\A s \in DOMAIN syncs : Terminal(syncs[s]) => TerminalRefused(s))
    /\ [][\A s \in DOMAIN syncs :
          Terminal(syncs[s]) =>
              /\ syncs'[s].gbase = syncs[s].gbase
              /\ syncs'[s].ghead = syncs[s].ghead
              /\ gecko_commits(syncs[s])' = gecko_commits(syncs[s])]_vars

\* A push that carries a later commit of the bug of a finished sync has been
\* processed.
C3_Witness ==
    /\ pc = "idle"
    /\ \E s \in DOMAIN syncs :
        /\ Terminal(syncs[s])
        /\ \E c \in DOMAIN history :
            /\ history[c].bug = syncs[s].bug
            /\ syncs[s].ghead < c
            /\ c <= syncPoint

\* ------------------------------------------------------------------ C6
\* C6: update_wpt_commits called twice in succession on the same gecko_commits
\* returns false the second time and leaves the side branch as the first call
\* left it.
C6_ReplayIdempotent ==
    \A s \in DOMAIN syncs :
        LET gecko == gecko_commits(syncs[s])
            again(first) ==
                LET second == update_wpt_commits(gecko, first.wpt)
                IN  ~second.rv /\ second.wpt = first.wpt
        IN  again(update_wpt_commits(gecko, syncs[s].wpt))

\* ------------------------------------------------------------------ C7
\* The syncs update_modified_sync calls update_wpt_commits on.
Active(sy) == sy.status \in {"open", "incomplete"}
Replayed(s) == Active(syncs[s]) /\ Len(gecko_commits(syncs[s])) > 0

NetEffect(commits) == Len(SelectSeq(commits, LAMBDA c : c.effect))

\* C7 as stated: after update_wpt_commits returns, the number of wpt_commits
\* equals the number of gecko_commits (each of which touches the tracked
\* subtree and is non-empty on it).
C7_WptCountEqualsGeckoCount ==
    \A s \in DOMAIN syncs :
        Replayed(s) =>
            Len(update_wpt_commits(gecko_commits(syncs[s]), syncs[s].wpt).wpt)
                = Len(gecko_commits(syncs[s]))

\* C7 amended: after update_wpt_commits returns on a sync with gecko commits,
\* the number of wpt_commits is at most the number of gecko_commits, and a
\* replay onto an empty side branch leaves one wpt commit for each gecko commit
\* whose patch has a net effect.
C7_WptCountAtMostGeckoCount ==
    \A s \in DOMAIN syncs :
        Replayed(s) =>
            LET counted(gecko, r) ==
                    /\ Len(r.wpt) <= Len(gecko)
                    /\ syncs[s].wpt = <<>> => Len(r.wpt) = NetEffect(gecko)
            IN  counted(gecko_commits(syncs[s]),
                        update_wpt_commits(gecko_commits(syncs[s]), syncs[s].wpt))

\* A push has replayed a sync one of whose gecko commits has no net effect.
C7_Witness ==
    /\ pc = "idle"
    /\ \E s \in DOMAIN syncs :
        /\ syncs[s].status = "open"
        /\ syncs[s].wpt # <<>>
        /\ Len(syncs[s].wpt) < Len(gecko_commits(syncs[s]))
        /\ NetEffect(gecko_commits(syncs[s])) < Len(gecko_commits(syncs[s]))

\* ------------------------------------------------------------------ C8
\* C8: between commands, each wpt commit of an open sync links to a gecko
\* commit of the sync at the same or a later position, and the linked gecko
\* commits, read along the side branch, are in the order of gecko_commits
\* without repetition.
C8_OrderPreserved ==
    \A s \in DOMAIN syncs :
        (pc = "idle" /\ syncs[s].status = "open") =>
            LET linked(gecko, up) ==
                    /\ \A i \in DOMAIN up :
                          \E j \in DOMAIN gecko : gecko[j].sha = up[i] /\ i <= j
                    /\ \A i, k \in DOMAIN up :
                          i < k => \E j, l \in DOMAIN gecko :
                                      /\ j < l
                                      /\ gecko[j].sha = up[i]
                                      /\ gecko[l].sha = up[k]
            IN  linked(gecko_commits(syncs[s]), upstreamed_gecko_commits(syncs[s]))

\* ------------------------------------------------------------------ C9
Assigned(sy) == sy.remote_branch # NoBranch

\* What get_or_create_remote_branch, push_commits and update_github would do
\* with the name of sync s, whatever the collaborators answer.
NameKept(s) ==
    /\ get_or_create_remote_branch(World, s) = syncs[s].remote_branch
    /\ \A push_ok \in BOOLEAN :
          push_commits(World, s, push_ok).w.syncs[s].remote_branch
              = syncs[s].remote_branch
    /\ \A push_ok, delete_ok \in BOOLEAN :
          LET kept(g) == Active(g.w.syncs[s]) =>
                             g.w.syncs[s].remote_branch = syncs[s].remote_branch
          IN  kept(update_github(World, s, Env(push_ok, delete_ok, CanMerge)))

NameFresh(s) ==
    LET fresh(name) ==
            /\ name[1] = syncs[s].bug
            /\ name[2] \in Nat
            /\ name \notin RefNames(World)
    IN  fresh(get_or_create_remote_branch(World, s))

\* C9: once remote_branch is assigned, get_or_create_remote_branch,
\* push_commits and update_github return and keep that name while the sync is
\* open or incomplete, and no step changes it; a freshly generated name is
\* gecko/<bug> or gecko/<bug>-<n> and is not a ref of origin.
C9_RemoteBranchStable ==
    /\ [](\A s \in DOMAIN syncs :
            /\ (Assigned(syncs[s]) /\ Active(syncs[s])) => NameKept(s)
            /\ (~Assigned(syncs[s]) /\ syncs[s].tracking = NoBranch) => NameFresh(s))
    /\ [][\A s \in DOMAIN syncs :
            (Assigned(syncs[s]) /\ Active(syncs'[s]))
                => syncs'[s].remote_branch = syncs[s].remote_branch]_vars

\* An open sync was pushed to gecko/<bug>-<n> because gecko/<bug> was already
\* a ref of origin.
C9_Witness ==
    \E s \in DOMAIN syncs :
        /\ syncs[s].status = "open"
        /\ Assigned(syncs[s])
        /\ syncs[s].remote_branch[2] > 0
        /\ syncs[s].remote_branch \in RefNames(World)
        /\ <<syncs[s].bug, 0>> \in RefNames(World)

\* ----------------------------------------------------------------- C10
\* The calls of finish the claim is about: a terminal status the sync may
\* change to, on a sync whose remote_branch is set.
Finishes(s, status) ==
    /\ Assigned(syncs[s])
    /\ status \in {"wpt-merged", "complete"}
    /\ <<syncs[s].status, status>> \in status_transitions

LandEnvs == {Env(TRUE, delete_ok, land) : delete_ok \in BOOLEAN, land \in LandAnswers}

\* The three preconditions of try_land_pr.
Landable(s) ==
    /\ syncs[s].status = "open"
    /\ gecko_landed(syncs[s])
    /\ syncs[s].pr # None

\* C11: try_land_pr changes a sync to wpt-merged only when its status is open,
\* its gecko commits have all reached central and it has a PR; when one of the
\* three fails it leaves the PRs of the host, the status and merge_sha as they
\* were and does not report the sync as landed.
C11_LandingPreconditions ==
    \A s \in DOMAIN syncs, env \in LandEnvs :
        LET guarded(t) ==
                /\ (t.r.w.syncs[s].status = "wpt-merged" /\ syncs[s].status # "wpt-merged")
                       => Landable(s)
                /\ ~Landable(s) =>
                       /\ t.r.w.prs = prs
                       /\ t.r.w.syncs[s].status = syncs[s].status
                       /\ t.r.w.syncs[s].merge_sha = syncs[s].merge_sha
                       /\ ~t.landed
        IN  guarded(try_land_pr(World, s, env))

\* A gecko_push has landed a sync: try_land_pr merged its PR and returned True.
C11_Witness ==
    /\ pc = "land"
    /\ \E s \in sets.landed : syncs[s].status = "wpt-merged" /\ syncs[s].merge_sha # None

\* ----------------------------------------------------------------- C12
\* try_land_pr reaches the check of the check runs: the three preconditions
\* hold and the PR is not merged yet.
AsksToMerge(s) == Landable(s) /\ ~prs[syncs[s].pr].merged

\* C12: when the PR is not already merged, try_land_pr merges it only if the
\* check status is success or pending, the PR is mergeable and it is approved;
\* if the check status is failure, or the PR is not mergeable or not approved,
\* or the merge call raises, the status and merge_sha are unchanged, the PR is
\* not merged and the sync is not reported as landed.
C12_MergeConditions ==
    \A s \in DOMAIN syncs, env \in LandEnvs :
        AsksToMerge(s) =>
            LET refused == \/ env.check = "failure"
                           \/ ~env.mergeable
                           \/ ~env.approved
                           \/ ~env.merge_ok
                decided(t) ==
                    /\ t.r.w.prs # prs =>
                          /\ env.check \in {"success", "pending"}
                          /\ env.mergeable
                          /\ env.approved
                    /\ refused =>
                          /\ t.r.w.prs = prs
                          /\ t.r.w.syncs[s].status = syncs[s].status
                          /\ t.r.w.syncs[s].merge_sha = syncs[s].merge_sha
                          /\ ~t.landed
            IN  decided(try_land_pr(World, s, env))

\* The landing loop of a gecko_push has passed a sync that meets the three
\* preconditions and left it open: the merge was refused.
C12_Witness ==
    /\ pc = "land"
    /\ \E s \in DOMAIN syncs :
        /\ AsksToMerge(s)
        /\ syncs[s].error = NoError
        /\ \A i \in DOMAIN queue : queue[i] # s

\* ----------------------------------------------------------------- C13
\* The collaborators' answers during the update of one sync.
UpdateEnvs == {Env(push_ok, delete_ok, CanMerge) : push_ok, delete_ok \in BOOLEAN}

\* C13: when the reconcile of a sync (update_sync_prs -> update_modified_sync
\* -> update_github) finds its PR closed and merged while the sync has more
\* gecko commits than upstreamed commits, the sync's error after the reconcile
\* is 'Upstream PR merged, but additional commits added after merge' and its
\* status is not complete.
C13_MergedErrorSticky ==
    \A s \in DOMAIN syncs, env \in UpdateEnvs :
        LET sticky(found, done) ==
                (found.exc = "" /\ found.w.syncs[s].error = MergedError
                                /\ syncs[s].error # MergedError) =>
                    /\ done.w.syncs[s].error = MergedError
                    /\ done.w.syncs[s].status # "complete"
        IN  sticky(update_modified_sync(World, s, env), update_sync_pr(World, s, env))

InvariantErrors == {"AssertionError", "ValueError"}

\* The answers during the update of one sync, the state of the worktree after
\* a patch included.
ReplayEnvs == {Dirty(env, clean) : env \in UpdateEnvs, clean \in BOOLEAN}

\* C15 as stated: with raise_on_error false an update that raises a failed
\* assertion or an illegal status change aborts the command, and every other
\* error is stored on the sync while the command goes on.
C15_OnlyInvariantErrorsEscape ==
    [][(pc = "update" /\ queue # <<>>) =>
          (pc' = "idle" <=> syncs'[Head(queue)].error \in InvariantErrors)]_vars

\* C15 amended: with raise_on_error false no error escapes the per-sync region
\* of update_sync_prs: whatever update_modified_sync raises, a failed assertion
\* or an illegal status change included, is stored in sync.error, the sync is
\* reported as failed and the loop goes on; with raise_on_error true
\* (update_sync) the error is stored and raised again.
C15_EveryErrorIsStored ==
    /\ [](\A s \in DOMAIN syncs, env \in ReplayEnvs :
            /\ LET stored(m, u) ==
                       m.exc # "" => (u.exc = m.exc /\ u.w.syncs[s].error = m.exc)
               IN  stored(update_modified_sync(World, s, env),
                          update_sync_pr(World, s, env))
            /\ ~Terminal(syncs[s]) =>
                   LET raised(u, r) ==
                           u.exc # "" => (r.exc = u.exc /\ r.w.syncs[s].error = u.exc)
                   IN  raised(update_sync_pr(World, s, env), update_sync(World, s, env)))
    /\ [][(pc = "update" /\ queue # <<>>) =>
            /\ pc' \in {"update", "land"}
            /\ syncs'[Head(queue)].error # NoError <=> Head(queue) \in sets'.failed]_vars

\* The loop of update_sync_prs went on after the assertion of add_commit had
\* failed during the update of a sync.
C15_Witness ==
    /\ pc \in {"update", "land"}
    /\ \E s \in sets.failed : syncs[s].error = "AssertionError"

\* ----------------------------------------------------------------- C16
\* The answers during the update of a sync whose push fails.
FailedPushEnvs == {Env(FALSE, delete_ok, CanMerge) : delete_ok \in BOOLEAN}

LateBackout(s) ==
    /\ pc = "idle"
    /\ Len(history) = syncPoint + 1
    /\ history[Len(history)].is_backout
    /\ syncs[s].ghead = syncPoint
    /\ Len(gecko_commits(syncs[s])) = syncs[s].ghead - syncs[s].gbase
    /\ \A i \in DOMAIN gecko_commits(syncs[s]) : ~gecko_commits(syncs[s])[i].is_backout
    /\ syncs[s].status = "open"
    /\ syncs[s].pr # None
    /\ prs[syncs[s].pr].state = "open"
    /\ gecko_commits(syncs[s]) # <<>>
    /\ history[Len(history)].backs = Shas(gecko_commits(syncs[s]))
    /\ Range(upstreamed_gecko_commits(syncs[s])) = Shas(gecko_commits(syncs[s]))

\* What gecko_push of the backout queues.
LateBackoutQueued(s) ==
    LET only_update(updated) ==
            /\ ~updated.none
            /\ updated.exc = ""
            /\ updated.anon = <<>>
            /\ updated.keyed = EmptyDict
            /\ updated.update = (syncs[s].bug :> [sync |-> s, commit |-> Len(history)])
    IN  only_update(updated_syncs_for_push(syncs, notes, syncPoint, Len(history)))

\* The update of sync s by gecko_push of the backout.
LateBackoutUpdate(s, env) ==
    LET updated(heads) == update_sync_pr(heads.w, s, env)
    IN  updated(update_sync_heads(World,
                                  syncs[s].bug :> [sync |-> s, commit |-> Len(history)],
                                  <<syncs[s].bug>>))

\* C17 as stated: after gecko_push of a push that backs out the commits of a
\* sync with an open PR, the sync has no gecko commits, its status is
\* incomplete, and the PR is left open and its branch is not pushed.
C17_LateBackoutLeavesPrOpen ==
    \A s \in DOMAIN syncs, env \in UpdateEnvs :
        LateBackout(s) =>
            LET left_open(u) ==
                    /\ LateBackoutQueued(s)
                    /\ u.exc = ""
                    /\ gecko_commits(u.w.syncs[s]) = <<>>
                    /\ u.w.syncs[s].status = "incomplete"
                    /\ u.w.prs[syncs[s].pr].state = "open"
                    /\ u.w.refs = refs
            IN  left_open(LateBackoutUpdate(s, env))

\* C17 amended: after gecko_push of a push that backs out the commits of a
\* sync with an open PR, no other commit lying between the sync's base and
\* the backout, the sync has no gecko commits, its status is
\* incomplete, the PR is closed without being merged, and the side branch and
\* its remote branch are left as they were.
C17_LateBackoutClosesPr ==
    \A s \in DOMAIN syncs, env \in UpdateEnvs :
        LateBackout(s) =>
            LET closed(u) ==
                    /\ LateBackoutQueued(s)
                    /\ u.exc = ""
                    /\ gecko_commits(u.w.syncs[s]) = <<>>
                    /\ u.w.syncs[s].status = "incomplete"
                    /\ u.w.syncs[s].pr = syncs[s].pr
                    /\ u.w.prs[syncs[s].pr] = [state |-> "closed", merged |-> FALSE]
                    /\ u.w.syncs[s].wpt = syncs[s].wpt
                    /\ u.w.syncs[s].remote_branch = syncs[s].remote_branch
                    /\ u.w.refs = refs
            IN  closed(LateBackoutUpdate(s, env))

\* A gecko_push has handled the backout of the commits of a sync with a PR.
C17_Witness ==
    /\ pc = "idle"
    /\ syncPoint = Len(history)
    /\ Len(history) > 1
    /\ history[Len(history)].is_backout
    /\ \E s \in DOMAIN syncs :
        /\ syncs[s].status = "incomplete"
        /\ syncs[s].ghead = Len(history)
        /\ gecko_commits(syncs[s]) = <<>>
        /\ syncs[s].wpt # <<>>
        /\ syncs[s].pr # None
        /\ prs[syncs[s].pr] = [state |-> "closed", merged |-> FALSE]

\* ----------------------------------------------------------------- C18
\* The range first..head of the integration branch holds no commit, or its
\* commits all cancel as backout pairs.
NoCommitsRemain(first, head) ==
    remove_complete_backouts(filter_commits(SubSeq(history, first + 1, head))) = <<>>

\* C18: for a push whose range holds no commit or only commits that cancel as
\* backout pairs, updated_syncs_for_push returns nothing, and gecko_push then
\* creates no sync, files no bug and changes no sync, PR or remote branch.
C18_CancelledPushChangesNothing ==
    /\ [](pc = "idle" =>
            \A first, head \in 0..Len(history) :
                (first <= head /\ NoCommitsRemain(first, head)) =>
                    updated_syncs_for_push(syncs, notes, first, head).none)
    /\ [][(pc = "idle" /\ NoCommitsRemain(syncPoint, Len(history))) =>
            /\ pc' = "idle"
            /\ syncs' = syncs
            /\ nextBug' = nextBug
            /\ prs' = prs
            /\ refs' = refs]_vars

\* After an earlier push has created a sync, a commit and its backout have
\* landed and wait for their gecko_push.
C18_Witness ==
    /\ pc = "idle"
    /\ syncs # <<>>
    /\ 0 < syncPoint
    /\ Len(history) = syncPoint + 2
    /\ history[Len(history)].is_backout
    /\ NoCommitsRemain(syncPoint, Len(history))

\* ----------------------------------------------------------------- C19
\* The one commit landed since the last push is a backout that names bug b,
\* the bug of the commits it backs out, and bug b has no open or incomplete
\* sync: no known sync holds the commits backed out.
OrphanBackout(b) ==
    /\ pc = "idle"
    /\ Len(history) = syncPoint + 1
    /\ history[Len(history)].is_backout
    /\ notes[Len(history)] = None
    /\ history[Len(history)].bug = b
    /\ {history[x].bug : x \in history[Len(history)].backs} \ {None} = {b}
    /\ for_bug(syncs, b, {"open", "incomplete"}) = <<>>

\* What gecko_push of the backout creates.
OrphanCreated ==
    LET created(updated) == create_syncs(World, updated.anon, updated.keyed)
    IN  created(updated_syncs_for_push(syncs, notes, syncPoint, Len(history)))

CheckEnvs == {Env(TRUE, delete_ok, land) : delete_ok \in BOOLEAN, land \in LandAnswers}

\* C20: commit_check_changed on an open sync posts the comment on the failed
\* checks only when the pair of check status and head differs from the stored
\* last_pr_check, it stores the pair it processed, and the same failure
\* processed a second time posts nothing: twice in succession, one comment.
C20_CheckCommentOnce ==
    \A s \in DOMAIN syncs, env \in CheckEnvs, bz_ok \in BOOLEAN :
        (syncs[s].status = "open" /\ syncs[s].pr # None) =>
            LET pair == <<env.check, pr_head(World, s)>>
                once(first) ==
                    /\ first.posted =>
                          (env.check = "failure" /\ pair # syncs[s].last_pr_check)
                    /\ first.r.w.syncs[s].last_pr_check = pair
                    /\ env.check = "failure" =>
                          /\ first.posted <=> (pair # syncs[s].last_pr_check)
                          /\ \A again \in BOOLEAN :
                                ~commit_check_changed(first.r.w, s, env, again).posted
            IN  once(commit_check_changed(World, s, env, bz_ok))

\* A notification of failed checks has been processed for an open sync.
C20_Witness ==
    /\ checks > 0
    /\ \E s \in DOMAIN syncs :
        /\ syncs[s].status = "open"
        /\ syncs[s].last_pr_check = <<"failure", pr_head(World, s)>>

\* ----------------------------------------------------------------- C21
\* The answers of the collaborators that let a PR merge: the checks pass, the
\* PR is mergeable and approved, and the merge call succeeds.
MergeEnvs == {Env(TRUE, delete_ok, CanMerge) : delete_ok \in BOOLEAN}

\* The sync is recorded as merged and holds no error.
LandedClean(sy) ==
    /\ sy.status = "wpt-merged"
    /\ sy.merge_sha = sy.pr
    /\ sy.error = NoError

MergedAtHost(s) ==
    /\ syncs[s].status = "wpt-merged"
    /\ syncs[s].pr # None
    /\ prs[syncs[s].pr].merged

\* The webhook for the merged PR of sync s is processed.
MergeEvent(s, delete_ok) ==
    update_pr(World, s, "closed", syncs[s].pr, 1, delete_ok)

\* C22 as stated: a sync that has been landed and is wpt-merged becomes
\* complete when the webhook for its merged PR is processed.
C22_MergeEventCompletes ==
    \A s \in DOMAIN syncs, delete_ok \in BOOLEAN :
        MergedAtHost(s) =>
            LET completed(r) == r.exc = "" /\ r.w.syncs[s].status = "complete"
            IN  completed(MergeEvent(s, delete_ok))

\* C22 amended: a sync that has been landed and is wpt-merged stays wpt-merged
\* when the webhook for its merged PR is processed: update_pr records the
\* merge sha and leaves the status, the PRs and the remote branches as they
\* were; and no step of a command takes a wpt-merged sync to another status.
C22_WptMergedStays ==
    /\ [](\A s \in DOMAIN syncs, delete_ok \in BOOLEAN :
            MergedAtHost(s) =>
                LET kept(r) ==
                        /\ r.exc = ""
                        /\ r.w.syncs[s].status = "wpt-merged"
                        /\ r.w.syncs[s].merge_sha = syncs[s].pr
                        /\ r.w.prs = prs
                        /\ r.w.refs = refs
                IN  kept(MergeEvent(s, delete_ok)))
    /\ [][\A s \in DOMAIN syncs :
            syncs[s].status = "wpt-merged" => syncs'[s].status = "wpt-merged"]_vars

\* A sync has been landed: it is wpt-merged, its PR is merged at the host and
\* its remote branch has been deleted, and no command is running.
C22_Witness ==
    /\ pc = "idle"
    /\ \E s \in DOMAIN syncs :
        /\ MergedAtHost(s)
        /\ syncs[s].merge_sha = syncs[s].pr
        /\ syncs[s].wpt # <<>>
        /\ ~Assigned(syncs[s])

\* ----------------------------------------------------------------- C23
\* The sync record apart from its pr_status.
BesidesPrStatus(sy) == [sy EXCEPT !.pr_status = "open"]

\* C23: update_pr for a PR closed without merge (action closed, no merge sha)
\* sets pr_status to closed and leaves the status and merge_sha as they were,
\* and a later reopened or open action sets pr_status back to open and changes
\* nothing else.
C23_ClosedWithoutMerge ==
    \A s \in DOMAIN syncs, delete_ok \in BOOLEAN, again \in {"reopened", "open"} :
        syncs[s].pr # None =>
            LET reopened(c, r) ==
                    /\ r.exc = ""
                    /\ r.w.syncs[s].pr_status = "open"
                    /\ BesidesPrStatus(r.w.syncs[s]) = BesidesPrStatus(c.w.syncs[s])
                    /\ r.w.prs = c.w.prs
                    /\ r.w.refs = c.w.refs
                closed(c) ==
                    /\ c.exc = ""
                    /\ c.w.syncs[s].pr_status = "closed"
                    /\ c.w.syncs[s].status = syncs[s].status
                    /\ c.w.syncs[s].merge_sha = syncs[s].merge_sha
                    /\ reopened(c, update_pr(c.w, s, again, None, None, delete_ok))
            IN  closed(update_pr(World, s, "closed", None, None, delete_ok))

\* ----------------------------------------------------------------- C24
\* update_modified_sync of sync s calls update_wpt_commits and add_commit
\* applies a patch.
Replays(s) ==
    LET applied(gecko, r) ==
            r.rv /\ Len(r.wpt) > Len(reset_head(gecko, syncs[s].wpt))
    IN  /\ Active(syncs[s])
        /\ gecko_commits(syncs[s]) # <<>>
        /\ applied(gecko_commits(syncs[s]),
                   update_wpt_commits(gecko_commits(syncs[s]), syncs[s].wpt))

\* What the collaborators answer when the patch does not apply.
ConflictEnvs == {Conflict(Env(TRUE, TRUE, CanMerge), apply) : apply \in {"abort", "abort_twice"}}

\* C24: when update_wpt_commits aborts inside update_modified_sync, the replay
\* is retried once on the sync point and only if the sync has no PR; if the
\* retry aborts too the wpt base is origin/master again and sync.error is set
\* when the update ends; with a PR there is no retry and the error is recorded.
C24_ConflictRecovery ==
    \A s \in DOMAIN syncs, env \in ConflictEnvs :
        Replays(s) =>
            LET recovered(u) ==
                    IF syncs[s].pr = None
                    THEN IF env.apply = "abort_twice"
                         THEN /\ u.exc = "AbortError"
                              /\ u.w.syncs[s].error = "AbortError"
                              /\ u.w.syncs[s].wpt_base = "origin/master"
                         ELSE u.w.syncs[s].wpt_base = "sync_point"
                    ELSE /\ u.w.syncs[s].wpt_base = syncs[s].wpt_base
                         /\ u.w.syncs[s].error = "AbortError"
            IN  recovered(update_sync_pr(World, s, env))

\* ----------------------------------------------------------------- C25
\* What the commands mutate: the syncs with their branches and PRs, the notes
\* on the commits, the bugs filed and the stored sync point.
Mutable == <<syncs, prs, refs, notes, nextBug, syncPoint>>

\* C25: every mutation a command makes happens while it holds the process
\* lock: a running gecko_push holds the lock from its first mutation to its
\* last, while it holds the lock every change of a sync, a PR, a branch, a
\* note or the sync point is one of its own steps, so the mutations of another
\* command or webhook handler never interleave with them, and the lock is free
\* again when the command has exited, with or without an error.
C25_MutualExclusion ==
    /\ [](pc # "idle" <=> lock = "gecko_push")
    /\ [](pc = "idle" => lock = "")
    /\ [][(pc # "idle" /\ Mutable' # Mutable) => <<pc, queue>>' # <<pc, queue>>]_vars

\* A gecko_push is under way and holds the lock while a PR event of the host
\* waits to be handled: the PR of a sync was closed out-of-band.
C25_Witness ==
    /\ pc = "update"
    /\ lock = "gecko_push"
    /\ \E s \in DOMAIN syncs :
        /\ syncs[s].pr # None
        /\ prs[syncs[s].pr].state = "closed"
        /\ syncs[s].pr_status = "open"

\* ------------------------------------------------- the operator's commands
\* The syncs a command's lookup by sync type and object id returns: the
\* upstream syncs of the bug that have not been deleted, in creation order.
get_syncs(ss, obj_id) ==
    SelectSeq([i \in DOMAIN ss |-> i],
              LAMBDA i : ss[i].bug = obj_id /\ ss[i].status # "deleted")

\* UpstreamSync.load_all of do_status: the syncs of the bug in old_status,
\* "*" matching every status.
load_all(ss, old_status, obj_id) ==
    SelectSeq(get_syncs(ss, obj_id),
              LAMBDA i : old_status = "*" \/ ss[i].status = old_status)

\* The try pushes of a sync.
try_pushes_of(s) == {t \in try_pushes : t[1] = s}

\* The bugs that have a sync.
SyncBugs == {syncs[s].bug : s \in DOMAIN syncs}

\* The try-push scheduler, a peer that takes the same lock, creates a try push
\* for a sync.
TryPushCreated ==
    /\ pc = "idle"
    /\ lock = ""
    /\ \E s \in DOMAIN syncs :
        /\ syncs[s].status # "deleted"
        /\ Cardinality(try_pushes_of(s)) < MaxTryPushes
        /\ try_pushes' = try_pushes \cup
               {<<s, CHOOSE n \in 1..MaxTryPushes :
                        /\ <<s, n>> \notin try_pushes
                        /\ \A m \in 1..(n - 1) : <<s, m>> \in try_pushes>>}
    /\ UNCHANGED <<history, central, syncPoint, syncs, prs, refs, notes, nextBug, pc,
                   queue, pushRev, tried, faults, checks, sets, lock, unguarded, pending, cvars>>

\* do_status for an upstream sync, run by main under the lock: the loop
\* assigns obj.status outside as_mut, so the first assignment is a write
\* without the capability; the setter fails as an assertion, main re-raises it
\* and no sync has changed.
DoStatus ==
    /\ pc = "idle"
    /\ lock = ""
    /\ \E obj_id \in SyncBugs, old_status \in statuses \cup {"*"}, new_status \in statuses :
        LET objs == load_all(syncs, old_status, obj_id)
        IN  /\ objs # <<>>
            /\ unguarded' = unguarded \cup {<<objs[1], "status">>}
    /\ UNCHANGED <<history, central, syncPoint, syncs, prs, refs, notes, nextBug, pc,
                   queue, pushRev, tried, faults, checks, sets, lock, try_pushes, pending, cvars>>

\* do_delete, run by main under the lock: with --try the try pushes of the
\* object are loaded, without it the syncs get_syncs returns.
DoDelete ==
    /\ pc = "idle"
    /\ lock = ""
    /\ \E obj_id \in SyncBugs, try \in BOOLEAN :
        /\ get_syncs(syncs, obj_id) # <<>>
        /\ pc' = IF try THEN "delete_try" ELSE "delete"
        /\ queue' = IF try
                    THEN SelectSeq(get_syncs(syncs, obj_id),
                                   LAMBDA s : try_pushes_of(s) # {})
                    ELSE get_syncs(syncs, obj_id)
    /\ lock' = "delete"
    /\ UNCHANGED <<history, central, syncPoint, syncs, prs, refs, notes, nextBug,
                   pushRev, tried, faults, checks, sets, kvars, cvars>>

\* try_push.delete() in either loop of do_delete: the next try push goes.
DeleteTryPush ==
    /\ pc \in {"delete", "delete_try"}
    /\ queue # <<>>
    /\ try_pushes_of(Head(queue)) # {}
    /\ LET mine == try_pushes_of(Head(queue))
           next == CHOOSE t \in mine : \A o \in mine : t[2] <= o[2]
       IN  /\ try_pushes' = try_pushes \ {next}
           /\ queue' = IF pc = "delete_try" /\ mine = {next}
                       THEN Tail(queue) ELSE queue
    /\ UNCHANGED <<history, central, syncPoint, syncs, prs, refs, notes, nextBug, pc,
                   pushRev, tried, faults, checks, sets, lock, unguarded, pending, cvars>>

\* sync.delete() run before the inner loop over the sync's try pushes.
DeleteSync_first ==
    /\ pc = "delete"
    /\ queue # <<>>
    /\ syncs' = [syncs EXCEPT ![Head(queue)].status = "deleted"]
    /\ queue' = Tail(queue)
    /\ UNCHANGED <<history, central, syncPoint, prs, refs, notes, nextBug, pc,
                   pushRev, tried, faults, checks, sets, lock, kvars, cvars>>

\* sync.delete() after the inner loop of do_delete has run out of try pushes.
DeleteSync ==
    /\ pc = "delete"
    /\ queue # <<>>
    /\ try_pushes_of(Head(queue)) = {}
    /\ syncs' = [syncs EXCEPT ![Head(queue)].status = "deleted"]
    /\ queue' = Tail(queue)
    /\ UNCHANGED <<history, central, syncPoint, prs, refs, notes, nextBug, pc,
                   pushRev, tried, faults, checks, sets, lock, kvars, cvars>>

\* do_delete returns and main releases the lock.
DoDeleteEnd ==
    /\ pc \in {"delete", "delete_try"}
    /\ queue = <<>>
    /\ pc' = "idle"
    /\ lock' = ""
    /\ UNCHANGED <<history, central, syncPoint, syncs, prs, refs, notes, nextBug, queue,
                   pushRev, tried, faults, checks, sets, kvars, cvars>>

\* Runs of the operator's commands between pushes.
CliNext ==
    \/ Land(MaxCommits)
    \/ GeckoPush
    \/ UpdateSyncPr
    \/ TryLandSync
    \/ GeckoPushEnd
    \/ TryPushCreated
    \/ DoStatus
    \/ DoDelete
    \/ DeleteTryPush
    \/ DeleteSync
    \/ DoDeleteEnd

CliSpec == Init /\ [][CliNext]_vars

\* ------------------------------------------------------------------- C26
\* C26: every write a command makes to a field of an UpstreamSync is made
\* while the sync's mutation capability is held: no command attempts a write
\* without it.
C26_WritesHoldCapability == unguarded = {}

\* ------------------------------------------------------------------- C27
\* The syncs that have been deleted.
Deleted(ss) == {s \in DOMAIN ss : ss[s].status = "deleted"}

\* C27: a sync is deleted only by the delete command run without --try, and
\* only once none of its try pushes is left: a deleted sync has no try push,
\* the step that deletes a sync is a step of that command on the sync it is
\* working on, whose try pushes are all gone, and neither the delete command
\* with --try nor any other command deletes or changes a sync on its way.
C27_DeleteOrdering ==
    /\ [](\A s \in Deleted(syncs) : try_pushes_of(s) = {})
    /\ [][\A s \in Deleted(syncs') \ Deleted(syncs) :
             /\ pc = "delete"
             /\ s = Head(queue)
             /\ try_pushes_of(s) = {}
             /\ try_pushes' = try_pushes]_vars
    /\ [][pc = "delete_try" => syncs' = syncs]_vars
    /\ [][pc # "delete" => Deleted(syncs') = Deleted(syncs)]_vars

\* The delete command has deleted a sync whose try pushes it removed and has
\* come to the next sync of the bug, which still has a try push.
C27_Witness ==
    /\ pc = "delete"
    /\ Deleted(syncs) # {}
    /\ queue # <<>>
    /\ try_pushes_of(Head(queue)) # {}
    /\ \E s \in Deleted(syncs) : \E t \in try_pushes : t[1] > s

\* ------------------------------------------------------------------- C28
\* The commits the loop of updated_syncs_for_push handles for a push of the
\* commits after the sync point: those left after cancellation that no sync
\* has been recorded on.
Handled ==
    SelectSeq(remove_complete_backouts(
                  filter_commits(SubSeq(history, syncPoint + 1, Len(history)))),
              LAMBDA c : notes[c.sha] = None)

\* The commit is an end of the endpoints.
Ends(e, sha) == e.first = sha \/ e.second = sha

\* C28: in the result of updated_syncs_for_push a backout commit appears only
\* where updates_for_backout put it: it is the commit of an update, an
\* anonymous endpoint or an end of a bug's bucket only if updates_for_backout
\* returned that entry for it.
C28_BackoutOneBranch ==
    LET routed(r) ==
            \A i \in DOMAIN Handled :
                LET c == Handled[i]
                    b == updates_for_backout(syncs, c)
                IN  c.is_backout =>
                        /\ \A bug \in DOMAIN r.update :
                               r.update[bug].commit = c.sha =>
                                   /\ bug \in DOMAIN b.update
                                   /\ b.update[bug].commit = c.sha
                        /\ \A j \in DOMAIN r.anon :
                               Ends(r.anon[j], c.sha) => r.anon[j] \in Range(b.anon)
                        /\ \A bug \in DOMAIN r.keyed :
                               Ends(r.keyed[bug], c.sha) =>
                                   /\ bug \in DOMAIN b.keyed
                                   /\ b.keyed[bug] = r.keyed[bug]
    IN  (pc = "idle" /\ Len(history) > syncPoint) =>
            LET checked(r) == (r.exc = "" /\ ~r.none) => routed(r)
            IN  checked(updated_syncs_for_push(syncs, notes, syncPoint, Len(history)))

\* ------------------------------------------------------------------- C29
\* The create and update dicts the loop of updated_syncs_for_push has built
\* when it has handled the first k commits of the push.
AfterCommits(k) ==
    push_loop(syncs, notes, SubSeq(Handled, 1, k),
              [anon |-> <<>>, keyed |-> EmptyDict, update |-> EmptyDict, exc |-> ""])

\* C29: the create dict of updated_syncs_for_push keeps what it has gathered:
\* every bug-less commit of the push that is not a backout has its anonymous
\* endpoint in the result, and the anonymous endpoints and the buckets gathered
\* from the earlier commits are still there, unchanged, when a later commit
\* of the push has been handled as a backout.
C29_CreateMapKept ==
    LET covered(r) ==
            \A i \in DOMAIN Handled :
                (Handled[i].bug = None /\ ~Handled[i].is_backout) =>
                    Endpoints(Handled[i]) \in Range(r.anon)
        kept(before, after) ==
            after.exc = "" =>
                /\ Range(before.anon) \subseteq Range(after.anon)
                /\ \A bug \in DOMAIN before.keyed :
                       /\ bug \in DOMAIN after.keyed
                       /\ after.keyed[bug] = before.keyed[bug]
    IN  (pc = "idle" /\ Len(history) > syncPoint) =>
            /\ LET checked(r) == (r.exc = "" /\ ~r.none) => covered(r)
               IN  checked(updated_syncs_for_push(syncs, notes, syncPoint, Len(history)))
            /\ \A k \in DOMAIN Handled :
                   Handled[k].is_backout => kept(AfterCommits(k - 1), AfterCommits(k))

\* ------------------------------------------------------------------- C30
\* A commit that names a bug gecko_push has filed lands on the integration
\* branch.
LandFiled ==
    /\ pc = "idle"
    /\ Len(history) < MaxPushCommits
    /\ \E b \in FirstFiledBug..(nextBug - 1) :
        /\ history' = Append(history, [sha |-> Len(history) + 1, bug |-> b,
                                       is_backout |-> FALSE, backs |-> {},
                                       effect |-> TRUE])
        /\ notes' = Append(notes, None)
    /\ UNCHANGED <<central, syncPoint, syncs, prs, refs, nextBug, pc, queue, pushRev,
                   tried, faults, checks, sets, cvars, lock, kvars>>

\* Runs of pushes in which later commits name the bugs filed for earlier ones.
FiledNext ==
    \/ Land(MaxPushCommits)
    \/ LandFiled
    \/ GeckoPush
    \/ UpdateSyncPr
    \/ TryLandSync
    \/ GeckoPushEnd

FiledSpec == Init /\ [][FiledNext]_vars

\* The most recently created of the syncs found: the one with the greatest
\* seq id among the open ones, or among the incomplete ones when none is open.
MostRecent(ss, found) ==
    LET open == {s \in Range(found) : ss[s].status = "open"}
        pool == IF open # {} THEN open
                ELSE {s \in Range(found) : ss[s].status = "incomplete"}
    IN  CHOOSE s \in pool : \A o \in pool : ss[o].seq <= ss[s].seq

\* C30: when the lookup for the bug of a commit of the push returns two or
\* more open or incomplete syncs, updated_syncs_for_push queues the commit as
\* an update of the most recently created of them.
C30_TieBreak ==
    (pc = "idle" /\ Len(history) > syncPoint) =>
        \A i \in DOMAIN Handled :
            LET c == Handled[i]
                found == for_bug(syncs, c.bug, {"open", "incomplete"})
                q == queue_commit(syncs, c, [anon |-> <<>>, keyed |-> EmptyDict,
                                             update |-> EmptyDict, exc |-> ""])
            IN  (~c.is_backout /\ Len(found) >= 2) =>
                    /\ c.bug \in DOMAIN q.update
                    /\ q.update[c.bug] = [sync |-> MostRecent(syncs, found),
                                          commit |-> c.sha]

\* ------------------------------------------------------------------- C31
\* The length of the longest prefix of the gecko commits all of which are
\* upstreamed.
AllUpstreamed(gecko, upstreamed) ==
    LET full == {n \in 0..Len(gecko) : \A i \in 1..n : gecko[i].sha \in upstreamed}
    IN  CHOOSE n \in full : \A o \in full : o <= n

\* C31, as stated: for every sync the matching prefix of update_wpt_commits
\* is the longest prefix of its gecko commits whose hashes are all upstreamed.
C31_LongestUpstreamedPrefix ==
    \A s \in DOMAIN syncs :
        LET same(gecko) ==
                matching_commits(gecko, Range(upstreamed_gecko_commits(syncs[s])))
                    = AllUpstreamed(gecko, Range(upstreamed_gecko_commits(syncs[s])))
        IN  same(gecko_commits(syncs[s]))

\* C31, amended: for every sync the matching prefix of update_wpt_commits
\* ends at the last of its gecko commits that is upstreamed and is empty when
\* none is: the commits after it are not upstreamed, the commits before it may
\* be commits without net effect that have no upstream commit.
C31_PrefixToLastUpstreamed ==
    \A s \in DOMAIN syncs :
        LET upstreamed == Range(upstreamed_gecko_commits(syncs[s]))
            ends(gecko, m) ==
                /\ m \in 0..Len(gecko)
                /\ m > 0 => gecko[m].sha \in upstreamed
                /\ \A i \in (m + 1)..Len(gecko) : gecko[i].sha \notin upstreamed
            checked(gecko) == ends(gecko, matching_commits(gecko, upstreamed))
        IN  checked(gecko_commits(syncs[s]))

\* A sync whose matching prefix holds a commit that is not upstreamed.
C31_Witness ==
    \E s \in DOMAIN syncs :
        LET upstreamed == Range(upstreamed_gecko_commits(syncs[s]))
            holds(gecko, m) == \E i \in 1..m : gecko[i].sha \notin upstreamed
            checked(gecko) == holds(gecko, matching_commits(gecko, upstreamed))
        IN  checked(gecko_commits(syncs[s]))

\* ------------------------------------------------------------------- C32
\* C32: when update_wpt_commits goes on to replay for the sync gecko_push
\* updates next, the side branch it has truncated is empty if the matching
\* prefix is empty, and otherwise ends with the replay of the last commit of
\* the matching prefix and holds the replay of no gecko commit outside the
\* prefix.
C32_TruncatedToPrefix ==
    (pc = "update" /\ queue # <<>>) =>
        LET sy == syncs[Head(queue)]
            truncated(gecko, m, head) ==
                (Len(gecko) > 0 /\ ~(m = Len(gecko) /\ Len(gecko) = Len(sy.wpt))) =>
                    IF m = 0 THEN head = <<>>
                    ELSE /\ head # <<>>
                         /\ head[Len(head)] = gecko[m].sha
                         /\ Range(head) \subseteq {gecko[i].sha : i \in 1..m}
            checked(gecko) ==
                truncated(gecko, matching_commits(gecko, Range(sy.wpt)),
                          reset_head(gecko, sy.wpt))
        IN  checked(gecko_commits(sy))

\* ------------------------------------------------------------------- C33
\* set_landed_status: the status it posts on the PR under upstream/gecko, ""
\* when the sync has no PR and nothing is posted.
set_landed_status(w, s) ==
    IF w.syncs[s].pr = None THEN ""
    ELSE IF gecko_landed(w.syncs[s]) THEN "success"
    ELSE "failure"

\* The PR of the sync is closed and merged when update_github asks the host.
MergedPr(w, s) ==
    /\ w.syncs[s].pr # None
    /\ w.prs[w.syncs[s].pr].state = "closed"
    /\ w.prs[w.syncs[s].pr].merged

\* The status update_github posts with its last statement, "" when it returns
\* or raises before it.
update_github_landed(w, s, env) ==
    LET sy == w.syncs[s]
        posted(r) == IF r.exc # "" THEN "" ELSE set_landed_status(r.w, s)
    IN  IF Len(gecko_commits(sy)) = 0 \/ Len(upstreamed_gecko_commits(sy)) = 0 THEN ""
        ELSE IF MergedPr(w, s) THEN ""
        ELSE posted(update_github(w, s, env))

\* The worlds update_github is called in for sync s: the side branch as it is
\* and as update_wpt_commits leaves it.
GithubWorlds(s) ==
    {World,
     [World EXCEPT !.syncs[s].wpt =
                       update_wpt_commits(gecko_commits(syncs[s]), syncs[s].wpt).wpt]}

GithubEnvs == {Env(push_ok, delete_ok, CanMerge) : push_ok, delete_ok \in BOOLEAN}

\* What C33 says of one call of update_github that leaves r and posts status:
\* the branch is pushed exactly when push_required holds, a PR is created only
\* for a sync without one and once the remote branch exists, and after a
\* normal return with a PR the remote head is the local head and the status
\* posted is success iff the gecko commits have landed.
Reconciled(w, s, r, status) ==
    LET before == w.syncs[s]
        after == r.w.syncs[s]
        pushed == [name |-> after.remote_branch, head |-> after.wpt] \in r.w.refs
    IN  /\ push_required(w, s) => (r.exc = "AbortError" \/ pushed)
        /\ ~push_required(w, s) => (r.w.refs = w.refs /\ r.exc = "")
        /\ after.pr # before.pr =>
               /\ before.pr = None
               /\ after.remote_branch \in RefNames(r.w)
               /\ Len(r.w.prs) = Len(w.prs) + 1
        /\ (r.exc = "" /\ after.pr # None) =>
               /\ pushed
               /\ status = IF gecko_landed(after) THEN "success" ELSE "failure"

\* C33, as stated: every call of update_github for a sync with a gecko commit
\* and an upstreamed commit pushes exactly when push_required holds, creates
\* the PR after the branch and only when there is none, and returns with the
\* remote head at the local head and the landed status posted.
C33_ReconcileOrdering ==
    \A s \in DOMAIN syncs : \A w \in GithubWorlds(s), env \in GithubEnvs :
        (Len(gecko_commits(w.syncs[s])) > 0 /\ Len(upstreamed_gecko_commits(w.syncs[s])) > 0)
            => Reconciled(w, s, update_github(w, s, env), update_github_landed(w, s, env))

\* C33, amended: the same for every such sync whose PR, if it has one, is not
\* closed and merged at the host.
C33_ReconcileUnmerged ==
    \A s \in DOMAIN syncs : \A w \in GithubWorlds(s), env \in GithubEnvs :
        (/\ Len(gecko_commits(w.syncs[s])) > 0
         /\ Len(upstreamed_gecko_commits(w.syncs[s])) > 0
         /\ ~MergedPr(w, s))
            => Reconciled(w, s, update_github(w, s, env), update_github_landed(w, s, env))

\* gecko_push is about to update a sync that has a PR and whose replay calls
\* for a push, and another sync that has upstreamed commits and no PR yet.
C33_Witness ==
    /\ pc = "update"
    /\ queue # <<>>
    /\ \E w \in GithubWorlds(Head(queue)) :
        /\ w.syncs[Head(queue)].pr # None
        /\ ~MergedPr(w, Head(queue))
        /\ Len(gecko_commits(w.syncs[Head(queue)])) > 0
        /\ Len(w.syncs[Head(queue)].wpt) > 0
        /\ push_required(w, Head(queue))

\* ------------------------------------------------------------------- C34
\* self.seen of a BackoutCommitFilter after it has filtered the commits.
RECURSIVE filter_seen(_, _, _)
filter_seen(bug, seen, commits) ==
    IF commits = <<>> THEN seen
    ELSE filter_seen(bug, filter_commit(bug, seen, Head(commits))[2], Tail(commits))

\* C34: over the range of every sync the filter of the sync's bug admits a
\* commit exactly when it is a change for the bug or a backout of a commit the
\* filter admitted before, and the hash of every commit it admits, plain or
\* backout, is in its seen set.  (No commit of the model carries a skip marker,
\* is a downstream replay or is empty.)
C34_AdmittedAreSeen ==
    \A s \in DOMAIN syncs :
        LET bug == syncs[s].bug
            cs == SubSeq(history, syncs[s].gbase + 1, syncs[s].ghead)
            admitted(n) == Shas(admitted_commits(bug, {}, SubSeq(cs, 1, n)))
        IN  /\ admitted(Len(cs)) \subseteq filter_seen(bug, {}, cs)
            /\ \A i \in DOMAIN cs :
                   cs[i].sha \in admitted(Len(cs)) <=>
                       \/ cs[i].bug = bug
                       \/ cs[i].is_backout /\ (cs[i].backs \cap admitted(i - 1)) # {}

\* ------------------------------------------------------------------- C35
\* C35: every sync in status wpt-merged has a merge_sha, and a closed event
\* without a merge_sha, a repeated one included, leaves a sync that is not
\* wpt-merged not wpt-merged.
C35_MergedHasMergeSha ==
    /\ \A s \in DOMAIN syncs : syncs[s].status = "wpt-merged" => syncs[s].merge_sha # None
    /\ \A s \in DOMAIN syncs : \A delete_ok \in BOOLEAN :
           LET stays(r) == r.w.syncs[s].status = "wpt-merged"
                               => syncs[s].status = "wpt-merged"
           IN  syncs[s].pr # None =>
                   stays(update_pr(World, s, "closed", None, 1, delete_ok))

\* ------------------------------------------------------------------- C36
\* gecko_push is called for a rev: before it takes the lock it reads the last
\* sync point and prev_commit, and returns at once when the sync point has
\* moved past rev.  The call then waits for the lock.
GeckoPushCalled ==
    /\ Cardinality(pending) < MaxPending
    /\ \E rev \in 1..Len(history) :
        /\ ~(rev <= syncPoint)
        /\ [rev |-> rev, prev_commit |-> syncPoint] \notin pending
        /\ pending' = pending \cup {[rev |-> rev, prev_commit |-> syncPoint]}
    /\ UNCHANGED <<history, central, syncPoint, syncs, prs, refs, notes, nextBug, pc,
                   queue, pushRev, tried, faults, checks, sets, lock, unguarded,
                   try_pushes, cvars>>

\* A waiting call of gecko_push gets the lock and runs updated_syncs_for_push
\* from the prev_commit it read, create_syncs and update_sync_heads.
GeckoPushLocked ==
    /\ pc = "idle"
    /\ lock = ""
    /\ \E call \in pending :
        LET started(updated, created, heads) ==
                IF updated.exc # "" \/ updated.none
                THEN UNCHANGED <<syncs, prs, refs, notes, nextBug, tried, pc, queue,
                                 pushRev>>
                ELSE IF heads.exc # ""
                THEN /\ SetWorld(heads.w)
                     /\ UNCHANGED <<pc, queue, pushRev>>
                ELSE /\ SetWorld(heads.w)
                     /\ pc' = "update"
                     /\ queue' = [i \in 1..(Len(created.syncs) - Len(syncs)) |->
                                     Len(syncs) + i]
                                 \o [i \in 1..Cardinality(DOMAIN updated.update) |->
                                        updated.update[SortedSeq(DOMAIN updated.update)[i]].sync]
                     /\ pushRev' = call.rev
            headed(updated, created) ==
                started(updated, created,
                        update_sync_heads(created, updated.update,
                                          SortedSeq(DOMAIN updated.update)))
            grouped(updated) ==
                headed(updated, create_syncs(World, updated.anon, updated.keyed))
        IN  /\ pending' = pending \ {call}
            /\ grouped(updated_syncs_for_push(syncs, notes, call.prev_commit, call.rev))
    /\ lock' = IF pc' = "idle" THEN "" ELSE "gecko_push"
    /\ UNCHANGED <<history, central, syncPoint, faults, checks, sets, unguarded,
                   try_pushes, cvars>>

\* Runs in which calls of gecko_push, for any rev of the integration branch,
\* read the sync point at any time and take the lock in any order.
RaceNext ==
    \/ Land(MaxPushCommits)
    \/ GeckoPushCalled
    \/ GeckoPushLocked
    \/ UpdateSyncPr
    \/ TryLandSync
    \/ GeckoPushEnd

RaceSpec == Init /\ [][RaceNext]_vars

update_sync_no_raise(w, s, env) ==
    LET sy == w.syncs[s]
        result(x, pushed, failed, landed, tried_to_land) ==
            [w |-> x.w, pushed |-> pushed, failed |-> failed, landed |-> landed,
             tried |-> tried_to_land, exc |-> x.exc]
        landing(t, pushed, failed) ==
            result(t.r, pushed, failed, IF t.landed THEN {s} ELSE {}, TRUE)
        updated(r) ==
            LET pushed_syncs == IF r.exc # "" THEN {} ELSE {s}
                failed_syncs == IF r.exc # "" THEN {[sync |-> s, e |-> r.exc]} ELSE {}
            IN  IF [sync |-> s] \notin failed_syncs
                THEN landing(try_land_pr(r.w, s, env), pushed_syncs, failed_syncs)
                ELSE result(Ok(r.w), pushed_syncs, failed_syncs, {}, FALSE)
        headed(heads) ==
            IF heads.exc # "" THEN result(heads, {}, {}, {}, FALSE)
            ELSE updated(update_sync_pr(heads.w, s, env))
    IN  IF sy.status \in {"wpt-merged", "complete"}
        THEN result(Ok(w), {}, {}, {}, FALSE)
        ELSE headed(update_sync_heads(w, sy.bug :> [sync |-> s, commit |-> sy.ghead],
                                      <<sy.bug>>))

\* The answers of the collaborators to an update_sync: the push and the patch
\* may fail, the PR can be merged.
QuietEnvs ==
    {Dirty(Env(push_ok, TRUE, CanMerge), clean) : push_ok, clean \in BOOLEAN}

\* C37: an update_sync with raise_on_error false, called when the lock is free,
\* that reports the sync in failed_syncs has not called try_land_pr for it and
\* returns an empty landed set.
C37_FailedNotLanded ==
    lock = "" =>
        \A s \in DOMAIN syncs, env \in QuietEnvs :
            LET unlanded(r) == r.failed # {} => (~r.tried /\ r.landed = {})
            IN  unlanded(update_sync_no_raise(World, s, env))

\* ------------------------------------------------------------------- C38
\* The pull requests that no sync of the store has as its PR any more.
OrphanPrs ==
    {p \in DOMAIN prs :
        \A s \in DOMAIN syncs : syncs[s].pr = p => syncs[s].status = "deleted"}

\* The sync that opened pull request p, whose commits the PR still shows.
Opener(p) == CHOOSE s \in DOMAIN syncs : syncs[s].pr = p

\* UpstreamSync.from_pr for pull request pr_id whose commits carry the gecko
\* metadata of the gecko commits gecko_shas and of bug: the arguments of the
\* call of cls.new are positional, so pr_id is passed in the place of status.
from_pr(w, pr_id, bug, gecko_shas) ==
    LET sy == [bug |-> bug,
               seq |-> Len(SelectSeq(w.syncs, LAMBDA o : o.bug = bug)),
               status |-> ToString(pr_id),
               pr |-> None,
               pr_status |-> "open",
               merge_sha |-> None,
               remote_branch |-> NoBranch,
               tracking |-> NoBranch,
               gbase |-> gecko_shas[1] - 1,
               ghead |-> gecko_shas[Len(gecko_shas)],
               wpt_base |-> "pr_base",
               wpt |-> gecko_shas,
               last_pr_check |-> <<>>,
               error |-> NoError]
    IN  set_upstream_sync([w EXCEPT !.syncs = Append(@, sy)], Len(w.syncs) + 1)

\* An event arrives for a pull request that has no sync: the sync is made from
\* the PR with from_pr, unless the PR has no commit with gecko metadata.
FromPr ==
    /\ pc = "idle"
    /\ lock = ""
    /\ \E p \in OrphanPrs :
        /\ syncs[Opener(p)].wpt # <<>>
        /\ Cardinality({s \in DOMAIN syncs : syncs[s].wpt_base = "pr_base"}) < MaxFromPr
        /\ SetWorld(from_pr(World, p, syncs[Opener(p)].bug, syncs[Opener(p)].wpt))
    /\ UNCHANGED <<history, central, syncPoint, pc, queue, pushRev, faults, checks, sets,
                   lock, kvars, cvars>>

\* Runs in which the operator deletes syncs and events arrive for their PRs.
PrNext ==
    \/ Land(MaxCommits)
    \/ GeckoPush
    \/ UpdateSyncPr
    \/ TryLandSync
    \/ GeckoPushEnd
    \/ DoDelete
    \/ DeleteSync
    \/ DoDeleteEnd
    \/ FromPr

PrSpec == Init /\ [][PrNext]_vars

\* C38: the status of every sync of the store is one of open, wpt-merged,
\* complete and incomplete, and a sync that has just been created, by
\* create_syncs or by from_pr, is open.
C38_StatusInSet ==
    /\ [](\A s \in DOMAIN syncs :
              syncs[s].status # "deleted" => syncs[s].status \in statuses)
    /\ [][\A s \in DOMAIN syncs' :
              s \notin DOMAIN syncs => syncs'[s].status \in {"open", "incomplete"}]_vars

\* ------------------------------------------------------------------- C39
\* The syncs that have a PR.
WithPr(ss) == {s \in DOMAIN ss : ss[s].pr # None}

\* C39: a sync gets at most one PR: create_pr on a sync that has a PR leaves
\* the host and the sync as they are, every pull request of the host is the PR
\* of exactly one sync, and no step changes the PR of a sync that has one.
C39_OnePrPerSync ==
    /\ [](/\ \A s \in WithPr(syncs) : create_pr(World, s) = World
          /\ \A p \in DOMAIN prs : Cardinality({s \in DOMAIN syncs : syncs[s].pr = p}) = 1
          /\ \A s \in WithPr(syncs) : syncs[s].pr \in DOMAIN prs)
    /\ [][\A s \in WithPr(syncs) : syncs'[s].pr = syncs[s].pr]_vars

\* gecko_push has reconciled, for a second commit, a sync made by an earlier
\* push: the sync has the one PR of the host.
C39_Witness ==
    /\ pc \in {"update", "land"}
    /\ \E s \in sets.pushed :
        /\ syncs[s].pr # None
        /\ syncs[s].gbase < syncPoint
        /\ syncs[s].ghead > syncPoint
        /\ Len(syncs[s].wpt) = 2
        /\ [name |-> syncs[s].remote_branch, head |-> syncs[s].wpt] \in refs
        /\ Len(prs) = 1

====
